---------------------------- MODULE Spec2Model ----------------------------
(***************************************************************************)
(* Model of helium-gateway-rs, time-on-air regulatory throttle             *)
(* (src/lora_throttle.rs).                                                 *)
(*                                                                         *)
(* Numbers.  sent_at, at_time and period are i64 milliseconds and are      *)
(* modelled as integers (ms).  time_on_air, limit, cutoff_time and the     *)
(* dwell sums are f64 milliseconds and are modelled in fixed point, as an  *)
(* integer number of ticks (TicksPerMs ticks to the millisecond), rounded  *)
(* after every operation to the nearest value with Significand significant *)
(* bits, ties to even, as IEEE-754 arithmetic does.  TLC's integers are    *)
(* 32 bits wide, so the 53-bit significand of f64 is scaled down: every    *)
(* magnitude below 2^Significand ticks is exact (as every f64 below 2^53   *)
(* grid units is) and larger magnitudes round.  Not modelled: NaN and      *)
(* negative time_on_air, NaN frequencies, and i64 overflow of              *)
(* at_time - period.                                                       *)
(***************************************************************************)
EXTENDS Integers, Sequences, FiniteSets, TLC

VARIABLES
    model,          \* LoraThrottle.model : Option<LoraRegulatoryModel>
    sent_packets,   \* LoraThrottle.sent_packets : Vec<SentPacket>
    all_sent,       \* history: every track_sent call so far, never trimmed
    last_call,      \* the caller's most recent API call and what it returned
    test,           \* position of the eu868_duty_cycle_test driver
    airtime,        \* the most recent time_on_air / payload_symbols call
    onion,          \* the Onion a caller holds : Option<Onion>
    onion_call,     \* the most recent Onion call, its arguments and result
    client,         \* PocClient: gateway, block_time, poc_timeout, region_params
    store,          \* PocClient.store : PocStore (challenges, reports)
    messages,       \* the mpsc channel into PocClient: queue, senders dropped
    shutdown,       \* the triggered::Listener given to run: TRUE once triggered
    queue_timer,    \* queue_timer: TRUE while a tick is due
    run,            \* position of PocClient::run, and the branch select! took
    sweep,          \* handle_queue_timer_tick: its progress and what it did
    handled,        \* the message run handled last, the result and the store before
    env,            \* how many messages were sent and ticks fell due so far
    config_call,    \* the most recent poc_timeout() / block_time() call
    delivered       \* history: reports sent with success and not re-inserted

throttle_vars == <<model, sent_packets, all_sent, last_call, test>>
airtime_vars == <<airtime>>
onion_vars == <<onion, onion_call>>
poc_vars == <<client, store, messages, shutdown, queue_timer, run, sweep,
              handled, env>>

config_vars == <<config_call>>
history_vars == <<delivered>>

vars ==
    <<throttle_vars, airtime_vars, onion_vars, poc_vars, config_vars,
      history_vars>>

\* The parts of the program a specification of one part leaves alone.
NoAirtime == [op |-> "none"]
NoOnionCall == [op |-> "none"]
AirtimeIdle == airtime = NoAirtime
OnionIdle == onion = {} /\ onion_call = NoOnionCall
NoConfigCall == [op |-> "none"]
ConfigIdle == config_call = NoConfigCall
NoHistory == delivered = {}

\* PocClient::new, run not yet at its first select!.
NewClient ==
    [gateway |-> {}, block_time |-> {}, poc_timeout |-> {}, region_params |-> {}]
NewStore == [challenges |-> <<>>, reports |-> <<>>]
NoSweep ==
    [active |-> FALSE, start |-> <<>>, challenges |-> {}, pending |-> {},
     in_flight |-> {}, attempts |-> <<>>, done |-> {}, calls |-> {}, log |-> {}]
NoneSelected == [branch |-> "none"]
NoneHandled == [msg |-> [type |-> "none"]]
PocIdle ==
    /\ client = NewClient
    /\ store = NewStore
    /\ messages = [queue |-> <<>>, closed |-> FALSE]
    /\ shutdown = FALSE
    /\ queue_timer = TRUE
    /\ run = [pc |-> "select", selected |-> NoneSelected]
    /\ sweep = NoSweep
    /\ handled = NoneHandled
    /\ env = [sent |-> 0, ticks |-> 0]

outside_throttle ==
    <<airtime_vars, onion_vars, poc_vars, config_vars, history_vars>>
OutsideThrottleIdle ==
    AirtimeIdle /\ OnionIdle /\ PocIdle /\ ConfigIdle /\ NoHistory

---------------------------------------------------------------------------
(* Option<T>: None is the empty set, Some(v) the singleton.                *)
None == {}
Some(v) == {v}
Unwrap(o) == CHOOSE v \in o : TRUE

---------------------------------------------------------------------------
(* f64 arithmetic in ticks.                                                *)
TicksPerMs == 100
Significand == 30

\* The first magnitude that has no exact neighbours one tick apart.
f64_exact_below == 2^Significand

\* The spacing of representable values around magnitude m.
RECURSIVE f64_ulp(_, _)
f64_ulp(m, q) == IF m \div q < f64_exact_below THEN q ELSE f64_ulp(m, 2 * q)

\* Of the representable neighbours lo and lo + q of lo + r, the nearest,
\* and on a tie the one with the even significand.
f64_ties_even(lo, r, q) ==
    IF 2 * r < q THEN lo
    ELSE IF 2 * r > q THEN lo + q
    ELSE IF (lo \div q) % 2 = 0 THEN lo ELSE lo + q

f64_nearest_at(m, q) == f64_ties_even((m \div q) * q, m % q, q)

\* The representable value nearest to the magnitude m.
f64_nearest(m) == f64_nearest_at(m, f64_ulp(m, 1))

\* Round to the nearest representable value, ties to even.
f64_round(x) ==
    IF -f64_exact_below < x /\ x < f64_exact_below THEN x
    ELSE IF x < 0 THEN -f64_nearest(-x) ELSE f64_nearest(x)

f64_add(a, b) == f64_round(a + b)
f64_sub(a, b) == f64_round(a - b)
\* `i as f64` for an i64 number of milliseconds.
as_f64(i) == f64_round(i * TicksPerMs)
\* An f64 literal of a whole number of milliseconds.
Ms(n) == n * TicksPerMs

---------------------------------------------------------------------------
(* Regulatory models.                                                      *)
MAX_TIME_ON_AIR == 400

\* limit is kept as the fraction num/den: 400.0 (ms) for Dwell, 0.01 for Duty.
common_duty ==
    [kind |-> "Duty", limit |-> [num |-> 1, den |-> 100], period |-> 3600000]

us_dwell_time ==
    [kind |-> "Dwell", limit |-> [num |-> 400, den |-> 1], period |-> 20000]

period(m) == m.period

Regions ==
    {"Us915", "Eu868", "Eu433", "Cn470", "Cn779", "Au915", "As9231",
     "As9231b", "As9232", "As9233", "As9234", "Kr920", "In865", "Cd9001a"}

as_regulatory_model(region) ==
    CASE region = "Us915" -> Some(us_dwell_time)
      [] region = "Cn779" -> None
      [] OTHER            -> Some(common_duty)

SentPacket(frequency, sent_at, time_on_air) ==
    [frequency |-> frequency, sent_at |-> sent_at, time_on_air |-> time_on_air]

---------------------------------------------------------------------------
(* dwell_time.  relevant_time is the body of the loop for one record: the   *)
(* amount the record adds to the sum (0 where the loop continues), or      *)
(* AssertFailed where assert!(relevant_time_on_air >= 0.0) fails.          *)
AssertFailed == -1

relevant_time(sent_packet, cutoff_time, frequency) ==
    LET sent_at == as_f64(sent_packet.sent_at)
    IN  \* Scenario 1: entire packet sent before cutoff_time
        IF f64_add(sent_at, sent_packet.time_on_air) < cutoff_time
        THEN 0
        \* Scenario 2: packet sent on non-relevant frequency
        ELSE IF frequency # None /\ sent_packet.frequency \notin frequency
        THEN 0
        \* Scenario 3: started before cutoff_time, finished after it
        ELSE IF sent_at <= cutoff_time
        THEN LET relevant_time_on_air ==
                     f64_sub(sent_packet.time_on_air,
                             f64_sub(cutoff_time, sent_at))
             IN  IF relevant_time_on_air >= 0 THEN relevant_time_on_air
                 ELSE AssertFailed
        \* Scenario 4: whole transmission after cutoff_time
        ELSE sent_packet.time_on_air

\* The loop.  It panics when the assert! fails for some record; otherwise
\* the sum is formed amount by amount (each amount times the number of
\* records adding it).  The amounts are non-negative and every partial sum
\* is below 2^Significand ticks, so no addition of the loop rounds and the
\* order in which the loop adds them does not change the sum.
dwell_time(packets, cutoff_time, frequency) ==
    LET added   == {<<i, relevant_time(packets[i], cutoff_time, frequency)>> :
                       i \in 1..Len(packets)}
        amounts == {a[2] : a \in added}
        RECURSIVE sum(_)
        sum(as) ==
            IF as = {} THEN 0
            ELSE LET x == CHOOSE x \in as : TRUE
                 IN  f64_add(x * Cardinality({a \in added : a[2] = x}),
                             sum(as \ {x}))
    IN  IF AssertFailed \in amounts
        THEN [panic |-> TRUE, dwell |-> 0]
        ELSE [panic |-> FALSE, dwell |-> sum(amounts)]

\* LoraRegulatoryModel::can_send; the outcome is "true", "false" or "panic".
Bool(b) == IF b THEN "true" ELSE "false"

\* Variant: the limit itself is not allowed (strict comparison).
dwell_can_send_strict(m, packets, at_time, frequency, time_on_air) ==
    LET cutoff_time == f64_add(as_f64(at_time - m.period), time_on_air)
        d == dwell_time(packets, cutoff_time, Some(frequency))
        projected_dwell_time == f64_add(d.dwell, time_on_air)
    IN  IF d.panic THEN "panic"
        ELSE Bool(projected_dwell_time * m.limit.den < Ms(m.limit.num))

\* Variant: the cutoff is not moved by the candidate's own time_on_air.
dwell_can_send_plain_cutoff(m, packets, at_time, frequency, time_on_air) ==
    LET cutoff_time == as_f64(at_time - m.period)
        d == dwell_time(packets, cutoff_time, Some(frequency))
        projected_dwell_time == f64_add(d.dwell, time_on_air)
    IN  IF d.panic THEN "panic"
        ELSE Bool(projected_dwell_time * m.limit.den <= Ms(m.limit.num))

\* Variant: the dwell sum is taken over every frequency.
dwell_can_send_any_frequency(m, packets, at_time, frequency, time_on_air) ==
    LET cutoff_time == f64_add(as_f64(at_time - m.period), time_on_air)
        d == dwell_time(packets, cutoff_time, None)
        projected_dwell_time == f64_add(d.dwell, time_on_air)
    IN  IF d.panic THEN "panic"
        ELSE Bool(projected_dwell_time * m.limit.den <= Ms(m.limit.num))

dwell_can_send(m, packets, at_time, frequency, time_on_air) ==
    LET cutoff_time == f64_add(as_f64(at_time - m.period), time_on_air)
        d == dwell_time(packets, cutoff_time, Some(frequency))
        projected_dwell_time == f64_add(d.dwell, time_on_air)
    IN  IF d.panic THEN "panic"
        ELSE Bool(projected_dwell_time * m.limit.den <= Ms(m.limit.num))

\* Variant: the limit itself is allowed (inclusive comparison).
duty_can_send_inclusive(m, packets, at_time, frequency, time_on_air) ==
    LET cutoff_time == as_f64(at_time - m.period)
        d == dwell_time(packets, cutoff_time, None)
    IN  IF d.panic THEN "panic"
        ELSE Bool(f64_add(d.dwell, time_on_air) * m.limit.den
                    <= m.limit.num * as_f64(m.period))

\* Variant: a budget of 0.1% instead of 1%.
duty_can_send_tenth(m, packets, at_time, frequency, time_on_air) ==
    LET cutoff_time == as_f64(at_time - m.period)
        d == dwell_time(packets, cutoff_time, None)
    IN  IF d.panic THEN "panic"
        ELSE Bool(f64_add(d.dwell, time_on_air) * m.limit.den * 10
                    < m.limit.num * as_f64(m.period))

duty_can_send(m, packets, at_time, frequency, time_on_air) ==
    LET cutoff_time == as_f64(at_time - m.period)
        d == dwell_time(packets, cutoff_time, None)
        \* (current_dwell + time_on_air) / period < limit, cross-multiplied
    IN  IF d.panic THEN "panic"
        ELSE Bool(f64_add(d.dwell, time_on_air) * m.limit.den
                    < m.limit.num * as_f64(m.period))

\* Variant: the global ceiling is not applied.
model_can_send_no_ceiling(m, packets, at_time, frequency, time_on_air) ==
    IF m.kind = "Dwell"
    THEN dwell_can_send(m, packets, at_time, frequency, time_on_air)
    ELSE duty_can_send(m, packets, at_time, frequency, time_on_air)

model_can_send(m, packets, at_time, frequency, time_on_air) ==
    IF time_on_air > Ms(MAX_TIME_ON_AIR) THEN "false"
    ELSE IF m.kind = "Dwell"
         THEN dwell_can_send(m, packets, at_time, frequency, time_on_air)
         ELSE duty_can_send(m, packets, at_time, frequency, time_on_air)

\* Variant: a throttle without a model allows everything.
can_send_fail_open(mo, packets, at_time, frequency, time_on_air) ==
    IF mo # None
    THEN model_can_send(Unwrap(mo), packets, at_time, frequency, time_on_air)
    ELSE "true"

\* LoraThrottle::can_send
can_send(mo, packets, at_time, frequency, time_on_air) ==
    IF mo # None
    THEN model_can_send(Unwrap(mo), packets, at_time, frequency, time_on_air)
    ELSE "false"

---------------------------------------------------------------------------
(* LoraThrottle::track_sent.  sort_unstable orders by sent_at alone        *)
(* (SentPacket's Ord) and may leave records of equal sent_at in any order, *)
(* so every ascending arrangement is a possible result.                    *)
Last(s) == s[Len(s)]

IsAscending(s) == \A i \in 1..(Len(s) - 1) : s[i].sent_at <= s[i + 1].sent_at

Orderings(n) ==
    {p \in [1..n -> 1..n] : \A i, j \in 1..n : i # j => p[i] # p[j]}

\* Variant: the vector is left as pushed.
sort_unstable_noop(s) == {s}

sort_unstable(s) ==
    {t \in {[i \in 1..Len(s) |-> s[p[i]]] : p \in Orderings(Len(s))} :
        IsAscending(t)}

\* Variant: the record exactly one period old is kept.
retain_inclusive(s, cutoff_time) ==
    LET keep(sent_packet) == sent_packet.sent_at >= cutoff_time
    IN  SelectSeq(s, keep)

retain(s, cutoff_time) ==
    LET keep(sent_packet) == sent_packet.sent_at > cutoff_time
    IN  SelectSeq(s, keep)

\* The vectors track_sent may leave in sent_packets.
track_sent(mo, packets, sent_at, frequency, time_on_air) ==
    IF mo = None THEN {packets}
    ELSE
      LET m           == Unwrap(mo)
          sent_packet == SentPacket(frequency, sent_at, time_on_air)
          sort        == IF packets = <<>> THEN FALSE
                         ELSE sent_packet.sent_at < Last(packets).sent_at
          pushed      == Append(packets, sent_packet)
      IN  {retain(sorted, Last(sorted).sent_at - period(m)) :
              sorted \in (IF sort THEN sort_unstable(pushed) ELSE {pushed})}

\* The history: the record inserted in sent_at order (after its equals),
\* nothing removed.
insert_sorted(s, sent_packet) ==
    LET before(x) == x.sent_at <= sent_packet.sent_at
        after(x)  == x.sent_at > sent_packet.sent_at
    IN  SelectSeq(s, before) \o <<sent_packet>> \o SelectSeq(s, after)

---------------------------------------------------------------------------
(* The two operations as steps of the caller that owns the throttle.       *)
NoCall ==
    [op |-> "none", time |-> 0, frequency |-> 0, time_on_air |-> 0,
     outcome |-> "unit"]

\* A panic (the failed assert! in dwell_time) ends the process.
Running == last_call.outcome # "panic"

TrackSent(sent_at, frequency, time_on_air) ==
    /\ Running
    /\ sent_packets' \in
           track_sent(model, sent_packets, sent_at, frequency, time_on_air)
    /\ all_sent' =
           insert_sorted(all_sent, SentPacket(frequency, sent_at, time_on_air))
    /\ last_call' = [op |-> "track_sent", time |-> sent_at,
                     frequency |-> frequency, time_on_air |-> time_on_air,
                     outcome |-> "unit"]
    /\ UNCHANGED <<model, outside_throttle>>

CanSend(at_time, frequency, time_on_air) ==
    /\ Running
    /\ last_call' = [op |-> "can_send", time |-> at_time,
                     frequency |-> frequency, time_on_air |-> time_on_air,
                     outcome |-> can_send(model, sent_packets, at_time,
                                          frequency, time_on_air)]
    /\ UNCHANGED <<model, sent_packets, all_sent, outside_throttle>>

---------------------------------------------------------------------------
(* Spec: a throttle of any region, fed transmissions in and out of order   *)
(* around one compliance window.                                           *)
MaxTracked == 2
TimeOrigin == 123456

T0 == -TimeOrigin
Freqs == {0, 1}
Idle == [pc |-> "idle", n |-> 0, now |-> 0]

\* No throttle: the state of the throttle in a specification of another part.
ThrottleIdle ==
    /\ model = None
    /\ sent_packets = <<>>
    /\ all_sent = <<>>
    /\ last_call = NoCall
    /\ test = Idle

WindowOf(mo) == IF mo = None THEN period(us_dwell_time) ELSE period(Unwrap(mo))

TrackTimes(p) == {T0, T0 + 100, T0 + p}
TrackToas == {Ms(200), Ms(MAX_TIME_ON_AIR)}

CallTimes(p) == {T0 + 100, T0 + p, T0 + p + 100}
CallToas == {Ms(200), Ms(MAX_TIME_ON_AIR), Ms(MAX_TIME_ON_AIR) + 1}

\* LoraThrottle::for_region, and From<LoraRegulatoryModel>.
Init ==
    /\ model \in {as_regulatory_model(region) : region \in Regions}
                 \cup {Some(us_dwell_time), Some(common_duty)}
    /\ sent_packets = <<>>
    /\ all_sent = <<>>
    /\ last_call = NoCall
    /\ OutsideThrottleIdle
    /\ test = Idle

Next ==
    \/ /\ Len(all_sent) < MaxTracked
       /\ \E sent_at \in TrackTimes(WindowOf(model)), frequency \in Freqs,
             time_on_air \in TrackToas :
             TrackSent(sent_at, frequency, time_on_air)
       /\ UNCHANGED test
    \/ /\ \E at_time \in CallTimes(WindowOf(model)), frequency \in Freqs,
             time_on_air \in CallToas :
             CanSend(at_time, frequency, time_on_air)
       /\ UNCHANGED test

Spec == Init /\ [][Next]_vars

---------------------------------------------------------------------------
(* Us915Spec: the setting of us915_dwell_time_test.  Transmissions are     *)
(* tracked at t0 on either channel; can_send is asked around t0 and around *)
(* t0 + period.                                                            *)
Us915CallTimes(p) ==
    {T0, T0 + 1, T0 + 100, T0 + p - 1, T0 + p, T0 + p + 1,
     T0 + p + MAX_TIME_ON_AIR}

InitUs915 ==
    /\ model = as_regulatory_model("Us915")
    /\ sent_packets = <<>>
    /\ all_sent = <<>>
    /\ last_call = NoCall
    /\ OutsideThrottleIdle
    /\ test = Idle

NextUs915 ==
    \/ /\ Len(all_sent) < MaxTracked
       /\ \E frequency \in Freqs, time_on_air \in TrackToas :
             TrackSent(T0, frequency, time_on_air)
       /\ UNCHANGED test
    \/ /\ \E at_time \in Us915CallTimes(WindowOf(model)), frequency \in Freqs,
             time_on_air \in CallToas :
             CanSend(at_time, frequency, time_on_air)
       /\ UNCHANGED test

Us915Spec == InitUs915 /\ [][NextUs915]_vars

---------------------------------------------------------------------------
(* Eu868Spec: eu868_duty_cycle_test, statement by statement.               *)
Eu868Packets == 3599
Eu868Spacing == 1000
Eu868TenMs == 10

InitEu868 ==
    /\ model = Some(common_duty)
    /\ sent_packets = <<>>
    /\ all_sent = <<>>
    /\ last_call = NoCall
    /\ OutsideThrottleIdle
    /\ test = [pc |-> "max", n |-> 1, now |-> 0]

\* assert_eq!(true, throttle.can_send(0, ch0, max_time_onair))
TestMax ==
    /\ test.pc = "max"
    /\ CanSend(0, 0, Ms(MAX_TIME_ON_AIR))
    /\ test' = [test EXCEPT !.pc = "over"]

\* assert_eq!(false, throttle.can_send(0, ch0, max_time_onair + 1.0))
TestOver ==
    /\ test.pc = "over"
    /\ CanSend(0, 0, Ms(MAX_TIME_ON_AIR) + Ms(1))
    /\ test' = [test EXCEPT !.pc = "check"]

\* now = (n - 1) * 1000; assert_eq!(true, throttle.can_send(now, ch0, ten_ms))
TestCheck ==
    /\ test.pc = "check"
    /\ LET now == (test.n - 1) * Eu868Spacing IN
       /\ CanSend(now, 0, Ms(Eu868TenMs))
       /\ test' = [test EXCEPT !.pc = "track", !.now = now]

\* throttle.track_sent(now, ch0, ten_ms), and the loop's next n
TestTrack ==
    /\ test.pc = "track"
    /\ TrackSent(test.now, 0, Ms(Eu868TenMs))
    /\ test' = [test EXCEPT !.n = test.n + 1,
                            !.pc = IF test.n + 1 <= Eu868Packets
                                   THEN "check" ELSE "other"]

\* assert_eq!(false, throttle.can_send(now + 1000, ch1, ten_ms))
TestOther ==
    /\ test.pc = "other"
    /\ CanSend(test.now + Eu868Spacing, 1, Ms(Eu868TenMs))
    /\ test' = [test EXCEPT !.pc = "done"]

NextEu868 == TestMax \/ TestOver \/ TestCheck \/ TestTrack \/ TestOther

Eu868Spec == InitEu868 /\ [][NextEu868]_vars

---------------------------------------------------------------------------
(* GuardedSpec: a caller that asks can_send before every transmission and  *)
(* calls track_sent(t, f, toa) only right after can_send(t, f, toa) gave   *)
(* true, with timestamps that never decrease.  all_sent is then what was   *)
(* really transmitted.                                                     *)
MaxGuarded == 3

GuardedTimes(p) == {T0, T0 + p, T0 + p + 200, T0 + p + MAX_TIME_ON_AIR}

InitGuarded ==
    /\ model \in {Some(us_dwell_time), Some(common_duty)}
    /\ sent_packets = <<>>
    /\ all_sent = <<>>
    /\ last_call = NoCall
    /\ OutsideThrottleIdle
    /\ test = Idle

NextGuarded ==
    \/ /\ Len(all_sent) < MaxGuarded
       /\ \E at_time \in GuardedTimes(WindowOf(model)), frequency \in Freqs,
             time_on_air \in TrackToas :
             /\ all_sent # <<>> => at_time >= Last(all_sent).sent_at
             /\ CanSend(at_time, frequency, time_on_air)
       /\ UNCHANGED test
    \/ /\ last_call.op = "can_send"
       /\ last_call.outcome = "true"
       /\ TrackSent(last_call.time, last_call.frequency,
                    last_call.time_on_air)
       /\ UNCHANGED test

GuardedSpec == InitGuarded /\ [][NextGuarded]_vars

---------------------------------------------------------------------------
(* EpochSpec: a regulated throttle whose timestamps are large enough for   *)
(* sent_at + time_on_air to round (wall-clock milliseconds, where the sum  *)
(* of an i64-derived f64 and a fractional time_on_air is inexact).         *)
EpochOrigin == 10737420

E0 == EpochOrigin
EpochToas == {Ms(31), Ms(32) - 1, Ms(32)}
EpochCallTimes(p) == {E0 + p, E0 + p + 31, E0 + p + 32}
EpochCallToas == {Ms(31), Ms(200)}

InitEpoch ==
    /\ model \in {Some(us_dwell_time), Some(common_duty)}
    /\ sent_packets = <<>>
    /\ all_sent = <<>>
    /\ last_call = NoCall
    /\ OutsideThrottleIdle
    /\ test = Idle

NextEpoch ==
    \/ /\ Len(all_sent) < MaxTracked
       /\ \E frequency \in Freqs, time_on_air \in EpochToas :
              TrackSent(E0, frequency, time_on_air)
       /\ UNCHANGED test
    \/ /\ \E at_time \in EpochCallTimes(WindowOf(model)), frequency \in Freqs,
             time_on_air \in EpochCallToas :
              CanSend(at_time, frequency, time_on_air)
       /\ UNCHANGED test

EpochSpec == InitEpoch /\ [][NextEpoch]_vars

---------------------------------------------------------------------------
(* f32 arithmetic, bit for bit.  A finite f32 >= 0 is the record [m, e]    *)
(* of value m * 2^e with m = 0, or 2^23 <= m < 2^24 (24 significant bits). *)
(* Every operation rounds its exact result to nearest, ties to even.       *)
(* Subnormals, infinities, NaN and negative values do not arise for the    *)
(* arguments drawn here and are not modelled.                              *)
F32Significand == 24
f32_top == 2^F32Significand
f32_min == 2^(F32Significand - 1)
f32_zero == [m |-> 0, e |-> 0]

Sign(x) == IF x > 0 THEN 1 ELSE IF x < 0 THEN -1 ELSE 0

\* The significand lo followed by a fraction that is below (-1), at (0) or
\* above (1) one half, rounded.
f32_round_half(lo, cmp, e) ==
    IF cmp > 0 \/ (cmp = 0 /\ lo % 2 = 1)
    THEN IF lo + 1 = f32_top THEN [m |-> f32_min, e |-> e + 1]
                             ELSE [m |-> lo + 1, e |-> e]
    ELSE [m |-> lo, e |-> e]

\* The number of low bits s has beyond 24.
RECURSIVE f32_excess(_, _)
f32_excess(s, k) == IF (s \div (2^k)) < f32_top THEN k ELSE f32_excess(s, k + 1)

RECURSIVE f32_lift(_, _)
f32_lift(s, e) == IF s >= f32_min THEN [m |-> s, e |-> e] ELSE f32_lift(2 * s, e - 1)

f32_drop(s, e, k) ==
    f32_round_half(s \div (2^k), Sign(2 * (s % (2^k)) - (2^k)), e + k)

\* The f32 nearest to the integer s > 0 times 2^e.
f32_normal(s, e) ==
    IF s < f32_top THEN f32_lift(s, e) ELSE f32_drop(s, e, f32_excess(s, 0))

\* The f32 nearest to 2^32 - k, for 0 < k < 2^31: the u32 2^32 - k as f32.
f32_below_2_32(k) ==
    f32_round_half(f32_top - ((k + 255) \div 256),
                   Sign(2 * ((256 - (k % 256)) % 256) - 256), 8)

\* `n as f32` for a u32 n; a u32 of 2^31 and more is written as n - 2^32.
f32_from_u32(n) ==
    IF n = 0 THEN f32_zero
    ELSE IF n > 0 THEN f32_normal(n, 0) ELSE f32_below_2_32(-n)

\* a * b.  The 48-bit product of the significands is H * 2^24 + L.
f32_mul_round(H, L, e) ==
    IF H >= f32_min
    THEN f32_round_half(H, Sign(L - f32_min), e + 24)
    ELSE f32_round_half(2 * H + (L \div f32_min),
                        Sign(2 * (L % f32_min) - f32_min), e + 23)

f32_mul_limbs(a1, a0, b1, b0, e) ==
    f32_mul_round(
        a1 * b1 + ((a1 * b0 + a0 * b1) \div 4096)
                + ((((a1 * b0 + a0 * b1) % 4096) * 4096 + a0 * b0) \div f32_top),
        (((a1 * b0 + a0 * b1) % 4096) * 4096 + a0 * b0) % f32_top,
        e)

f32_mul(a, b) ==
    IF a.m = 0 \/ b.m = 0 THEN f32_zero
    ELSE f32_mul_limbs(a.m \div 4096, a.m % 4096, b.m \div 4096, b.m % 4096,
                       a.e + b.e)

\* a / b for b > 0, by long division: n more quotient bits after q.
RECURSIVE f32_long_div(_, _, _, _, _)
f32_long_div(q, r, d, n, e) ==
    IF n = 0 THEN f32_round_half(q, Sign(2 * r - d), e)
    ELSE IF 2 * r >= d THEN f32_long_div(2 * q + 1, 2 * r - d, d, n - 1, e - 1)
    ELSE f32_long_div(2 * q, 2 * r, d, n - 1, e - 1)

f32_div(a, b) ==
    IF a.m = 0 THEN f32_zero
    ELSE IF a.m >= b.m THEN f32_long_div(1, a.m - b.m, b.m, 23, a.e - b.e)
    ELSE f32_long_div(0, a.m, b.m, 24, a.e - b.e)

\* a + b for a.e >= b.e, with three guard bits and a sticky bit.
f32_add_round(S, sticky, e, k) ==
    f32_round_half(S \div (2^k),
                   IF S % (2^k) = 2^(k - 1) THEN (IF sticky THEN 1 ELSE 0)
                   ELSE Sign((S % (2^k)) - 2^(k - 1)),
                   e + k)

f32_add_aligned(a, b, d) ==
    IF d > 25 THEN a
    ELSE f32_add_round(8 * a.m + ((8 * b.m) \div (2^d)), ((8 * b.m) % (2^d)) # 0,
                       a.e - 3,
                       f32_excess(8 * a.m + ((8 * b.m) \div (2^d)), 0))

f32_add(a, b) ==
    IF a.m = 0 THEN b
    ELSE IF b.m = 0 THEN a
    ELSE IF a.e >= b.e THEN f32_add_aligned(a, b, a.e - b.e)
    ELSE f32_add_aligned(b, a, b.e - a.e)

\* `x as u32`: truncation, saturating at u32::MAX = 2^32 - 1.  A u32 of 2^31
\* and more is written as its value - 2^32.
f32_as_u32(x) ==
    IF x.e > 8 THEN -1
    ELSE IF x.e = 8 THEN (x.m - f32_top) * 256
    ELSE IF x.e >= 0 THEN x.m * (2^(x.e))
    ELSE IF x.e < -F32Significand THEN 0 ELSE x.m \div (2^(-x.e))

\* `x.ceil() as u32`
f32_ceil_as_u32(x) ==
    IF x.e >= 0 THEN f32_as_u32(x)
    ELSE IF x.e < -F32Significand THEN (IF x.m = 0 THEN 0 ELSE 1)
    ELSE (x.m + (2^(-x.e)) - 1) \div (2^(-x.e))

---------------------------------------------------------------------------
(* Time on air.  u32 arithmetic keeps its width: a subtraction that goes   *)
(* below zero panics in a build with overflow checks and wraps modulo 2^32 *)
(* in a build without; a wrapped u32 is written as its value - 2^32.       *)
U32FromBool(b) == IF b THEN 1 ELSE 0

PanicU32 == [panic |-> TRUE, value |-> 0]
OkU32(v) == [panic |-> FALSE, value |-> v]

payload_symbols_no_ceil(spreading_factor, code_rate, explicit_header, payload_len, low_datarate_optimized, overflow_checks) ==
    LET eh  == U32FromBool(explicit_header)
        ldo == U32FromBool(low_datarate_optimized)
    IN  IF overflow_checks /\ 8 * payload_len < 4 * spreading_factor
        THEN PanicU32
        ELSE OkU32(8 + f32_as_u32(
                     f32_div(f32_from_u32(8 * payload_len - 4 * spreading_factor
                                            + 28 + 16 - 20 * (1 - eh)),
                             f32_from_u32(4 * (spreading_factor - 2 * ldo))))
                     * code_rate)

\* max(x, 0) of a u32 x is x.
payload_symbols(spreading_factor, code_rate, explicit_header, payload_len, low_datarate_optimized, overflow_checks) ==
    LET eh  == U32FromBool(explicit_header)
        ldo == U32FromBool(low_datarate_optimized)
    IN  IF overflow_checks /\ 8 * payload_len < 4 * spreading_factor
        THEN PanicU32
        ELSE OkU32(8 + f32_ceil_as_u32(
                     f32_div(f32_from_u32(8 * payload_len - 4 * spreading_factor
                                            + 28 + 16 - 20 * (1 - eh)),
                             f32_from_u32(4 * (spreading_factor - 2 * ldo))))
                     * code_rate)

symbol_duration(spreading_factor, bandwidth) ==
    f32_div(f32_from_u32(2^spreading_factor), f32_from_u32(bandwidth))

\* 4.25 and 1000.0
f32_4_25 == f32_normal(17, -2)
f32_1000 == f32_normal(1000, 0)

time_on_air_no_sync(datarate, code_rate, preamble_symbols, explicit_header, payload_len, overflow_checks) ==
    LET ps == payload_symbols(datarate.spreading_factor, code_rate,
                              explicit_header, payload_len,
                              datarate.bandwidth <= 125000
                                  /\ datarate.spreading_factor >= 11,
                              overflow_checks)
    IN  IF ps.panic THEN [panic |-> TRUE, value |-> f32_zero]
        ELSE [panic |-> FALSE,
              value |-> f32_mul(symbol_duration(datarate.spreading_factor,
                                                datarate.bandwidth),
                                f32_add(f32_from_u32(preamble_symbols),
                                        f32_from_u32(ps.value)))]

\* datarate is [spreading_factor, bandwidth]; the result is an f32, or the
\* panic of payload_symbols.
time_on_air(datarate, code_rate, preamble_symbols, explicit_header, payload_len, overflow_checks) ==
    LET ps == payload_symbols(datarate.spreading_factor, code_rate,
                              explicit_header, payload_len,
                              datarate.bandwidth <= 125000
                                  /\ datarate.spreading_factor >= 11,
                              overflow_checks)
    IN  IF ps.panic THEN [panic |-> TRUE, value |-> f32_zero]
        ELSE [panic |-> FALSE,
              value |-> f32_mul(symbol_duration(datarate.spreading_factor,
                                                datarate.bandwidth),
                                f32_add(f32_add(f32_4_25,
                                                f32_from_u32(preamble_symbols)),
                                        f32_from_u32(ps.value)))]

\* test::ms: (seconds * 1000.0) as u32
ms(seconds) == f32_as_u32(f32_mul(seconds, f32_1000))

\* One call of either function, by a caller that keeps what it returned.
AirCall(op, datarate, code_rate, preamble_symbols, explicit_header, payload_len, low_datarate_optimized, symbols, seconds) ==
    [op |-> op, overflow_checks |-> airtime.overflow_checks,
     spreading_factor |-> datarate.spreading_factor,
     bandwidth |-> datarate.bandwidth, code_rate |-> code_rate,
     preamble_symbols |-> preamble_symbols,
     explicit_header |-> explicit_header, payload_len |-> payload_len,
     low_datarate_optimized |-> low_datarate_optimized,
     panic |-> symbols.panic, symbols |-> symbols.value,
     seconds |-> seconds, ms |-> ms(seconds)]

TimeOnAir(datarate, code_rate, preamble_symbols, explicit_header, payload_len) ==
    LET ldo == datarate.bandwidth <= 125000 /\ datarate.spreading_factor >= 11
    IN  airtime' =
            AirCall("time_on_air", datarate, code_rate, preamble_symbols,
                    explicit_header, payload_len, ldo,
                    payload_symbols(datarate.spreading_factor, code_rate,
                                    explicit_header, payload_len, ldo,
                                    airtime.overflow_checks),
                    time_on_air(datarate, code_rate, preamble_symbols,
                                explicit_header, payload_len,
                                airtime.overflow_checks).value)

PayloadSymbols(spreading_factor, code_rate, explicit_header, payload_len, low_datarate_optimized) ==
    airtime' =
        AirCall("payload_symbols",
                [spreading_factor |-> spreading_factor, bandwidth |-> 0],
                code_rate, 0, explicit_header, payload_len,
                low_datarate_optimized,
                payload_symbols(spreading_factor, code_rate, explicit_header,
                                payload_len, low_datarate_optimized,
                                airtime.overflow_checks),
                f32_zero)

---------------------------------------------------------------------------
(* AirSpec: time_on_air and payload_symbols on the data rates of LoRa      *)
(* (SF7 to SF12 at 125, 250 and 500 kHz), in either build.                 *)
SpreadingFactors == 7..12
Bandwidths == {125000, 250000, 500000}
DataRates ==
    [spreading_factor : SpreadingFactors, bandwidth : Bandwidths]
CodeRates == 5..8
PreambleSymbols == {8}
PayloadLens == {0, 1, 3, 5, 6, 7, 51, 255}

outside_air ==
    <<throttle_vars, onion_vars, poc_vars, config_vars, history_vars>>
OutsideAirIdle ==
    ThrottleIdle /\ OnionIdle /\ PocIdle /\ ConfigIdle /\ NoHistory

InitAir ==
    /\ OutsideAirIdle
    /\ airtime \in {[op |-> "none", overflow_checks |-> b] : b \in BOOLEAN}

\* Each behaviour is one call.
NextAir ==
    \/ /\ airtime.op = "none"
       /\ \E datarate \in DataRates, code_rate \in CodeRates,
             preamble_symbols \in PreambleSymbols,
             explicit_header \in BOOLEAN, payload_len \in PayloadLens :
              TimeOnAir(datarate, code_rate, preamble_symbols, explicit_header,
                        payload_len)
       /\ UNCHANGED outside_air
    \/ /\ airtime.op = "none"
       /\ \E spreading_factor \in SpreadingFactors, code_rate \in CodeRates,
             explicit_header \in BOOLEAN, payload_len \in PayloadLens,
             low_datarate_optimized \in BOOLEAN :
              PayloadSymbols(spreading_factor, code_rate, explicit_header,
                             payload_len, low_datarate_optimized)
       /\ UNCHANGED outside_air

AirSpec == InitAir /\ [][NextAir]_vars

---------------------------------------------------------------------------
(* Onion frames (src/poc/onion.rs).  A byte is a number in 0..255 and a    *)
(* buffer a sequence of bytes.  A Result is [ok |-> TRUE, value |-> v] or  *)
(* [ok |-> FALSE, error |-> e].                                            *)
Ok(v) == [ok |-> TRUE, value |-> v]
Err(e) == [ok |-> FALSE, error |-> e]

TAG_LENGTH == 4
NONCE_LENGTH == 12
PUBLIC_KEY_LENGTH == 33
OnionHeaderLength == 39

\* bytes::Buf: each read takes bytes off the front.
get_u16_be(data) ==
    [value |-> 256 * data[1] + data[2], rest |-> SubSeq(data, 3, Len(data))]

get_u16_le(data) ==
    [value |-> data[1] + 256 * data[2], rest |-> SubSeq(data, 3, Len(data))]

copy_to_bytes(data, n) ==
    [value |-> SubSeq(data, 1, n), rest |-> SubSeq(data, n + 1, Len(data))]

\* PublicKey::from_bytes (helium_crypto, a library): the first byte names the
\* key type, ecc_compact (0) or ed25519 (1); any other first byte is refused.
\* The check that the remaining 32 bytes are a point of the curve is not
\* modelled.  A PublicKey is kept as the 33 bytes to_vec() gives back.
KeyTypeEccCompact == 0
KeyTypeEd25519 == 1

public_key_from_bytes(bin) ==
    IF Len(bin) = PUBLIC_KEY_LENGTH /\ bin[1] \in {KeyTypeEccCompact, KeyTypeEd25519}
    THEN Ok(bin) ELSE Err("decode")

from_bytes(buf) ==
    IF Len(buf) < OnionHeaderLength THEN Err("invalid onion size")
    ELSE LET iv == get_u16_le(buf)
             public_key_bin == copy_to_bytes(iv.rest, PUBLIC_KEY_LENGTH)
             public_key == public_key_from_bytes(public_key_bin.value)
             tag == copy_to_bytes(public_key_bin.rest, TAG_LENGTH)
         IN  IF ~public_key.ok THEN Err("invalid_key")
             ELSE Ok([signal_strength |-> 0, snr |-> 0, frequency |-> 0,
                      channel |-> 0, timestamp |-> 0, datarate |-> "default",
                      public_key |-> public_key.value, iv |-> iv.value,
                      tag |-> tag.value, cipher_text |-> tag.rest])

---------------------------------------------------------------------------
(* decrypt_in_place.  ECDH, AES-256 and GHASH are library code: each is    *)
(* modelled by a stand-in that, like the original, is a fixed function of  *)
(* its inputs; the byte values they give are not those of the originals.   *)
(* The test `cipher_text.len() > C_MAX` (2^36 - 32 bytes) is false for     *)
(* every buffer here and is left out.                                      *)
RECURSIVE XorBits(_, _, _)
XorBits(a, b, n) ==
    IF n = 0 THEN 0
    ELSE ((a + b) % 2) + 2 * XorBits(a \div 2, b \div 2, n - 1)

Xor(a, b) == XorBits(a, b, 8)

RECURSIVE WeightedSum(_, _)
WeightedSum(bytes, w) ==
    IF bytes = <<>> THEN 0
    ELSE (Head(bytes) * w + WeightedSum(Tail(bytes), w + 2)) % 256

\* keypair.ecdh(&public_key): fails for a key that is not ecc_compact.  A
\* keypair is a number naming the gateway's secret key.
ecdh(keypair, public_key) ==
    IF public_key[1] # KeyTypeEccCompact THEN Err("ecdh")
    ELSE Ok((keypair * 97 + WeightedSum(public_key, 1)) % 256)

\* The additional data: ten zero bytes, the iv (little endian), the key.
onion_aad(self) ==
    <<0, 0, 0, 0, 0, 0, 0, 0, 0, 0, self.iv % 256, self.iv \div 256>>
        \o self.public_key

\* Ctr32BE keystream byte number pos (from 0) under nonce and secret; the
\* first block is the one of counter J0 = nonce | 1.
keystream(secret, nonce, pos) ==
    (secret * 31 + WeightedSum(nonce, 3) + 7 * (1 + (pos \div 16))
        + 13 * (pos % 16) + 5) % 256

\* ctr.apply_keystream(buf), when pos bytes of keystream are already used.
apply_keystream(buf, secret, nonce, pos) ==
    [i \in 1..Len(buf) |-> Xor(buf[i], keystream(secret, nonce, pos + i - 1))]

\* compute_tag: GHASH over aad and buffer and their lengths, 16 bytes.
compute_tag(secret, aad, buffer) ==
    [i \in 1..16 |->
        (secret * 11 + i * (WeightedSum(aad, 1) + 1) + WeightedSum(buffer, 3)
            + 8 * Len(aad) + 8 * Len(buffer)) % 256]

starts_with(bytes, prefix) ==
    /\ Len(prefix) <= Len(bytes)
    /\ SubSeq(bytes, 1, Len(prefix)) = prefix

\* The tag as decrypt_in_place computes it: compute_tag under the keystream.
expected_tag(self, secret) ==
    apply_keystream(compute_tag(secret, onion_aad(self), self.cipher_text),
                    secret, SubSeq(onion_aad(self), 1, NONCE_LENGTH), 0)

decrypt_in_place_eager(self, keypair) ==
    LET shared_secret == ecdh(keypair, self.public_key)
        nonce == SubSeq(onion_aad(self), 1, NONCE_LENGTH)
        plain == [self EXCEPT !.cipher_text =
                      apply_keystream(@, shared_secret.value, nonce, 16)]
    IN  IF ~shared_secret.ok THEN [ret |-> Err("ecdh"), self |-> self]
        ELSE IF ~starts_with(expected_tag(self, shared_secret.value), self.tag)
        THEN [ret |-> Err("crypto_error"), self |-> plain]
        ELSE [ret |-> Ok("unit"), self |-> plain]

decrypt_in_place_rewound(self, keypair) ==
    LET shared_secret == ecdh(keypair, self.public_key)
        nonce == SubSeq(onion_aad(self), 1, NONCE_LENGTH)
    IN  IF ~shared_secret.ok THEN [ret |-> Err("ecdh"), self |-> self]
        ELSE IF ~starts_with(expected_tag(self, shared_secret.value), self.tag)
        THEN [ret |-> Err("crypto_error"), self |-> self]
        ELSE [ret |-> Ok("unit"),
              self |-> [self EXCEPT !.cipher_text =
                            apply_keystream(@, shared_secret.value, nonce, 0)]]

\* The result and the Onion as the call leaves it.
decrypt_in_place(self, keypair) ==
    LET shared_secret == ecdh(keypair, self.public_key)
        nonce == SubSeq(onion_aad(self), 1, NONCE_LENGTH)
    IN  IF ~shared_secret.ok THEN [ret |-> Err("ecdh"), self |-> self]
        ELSE IF ~starts_with(expected_tag(self, shared_secret.value), self.tag)
        THEN [ret |-> Err("crypto_error"), self |-> self]
        ELSE [ret |-> Ok("unit"),
              self |-> [self EXCEPT !.cipher_text =
                            apply_keystream(@, shared_secret.value, nonce, 16)]]

\* The frame a challenger builds for plain_text (the reference encryption of
\* test::decrypt): the cipher text, and the first four bytes of the tag.
seal(iv, public_key, keypair, plain_text) ==
    LET secret == ecdh(keypair, public_key).value
        blank  == [iv |-> iv, public_key |-> public_key]
        nonce  == SubSeq(onion_aad(blank), 1, NONCE_LENGTH)
        cipher_text == apply_keystream(plain_text, secret, nonce, 16)
        tag == apply_keystream(compute_tag(secret, onion_aad(blank), cipher_text),
                               secret, nonce, 0)
    IN  <<iv % 256, iv \div 256>> \o public_key
            \o SubSeq(tag, 1, TAG_LENGTH) \o cipher_text

\* Sha512::digest (sha2, a library): 64 bytes, a fixed function of the data;
\* the stand-in's byte values are not those of SHA-512.
DigestLength == 64

Sha512(data) ==
    [i \in 1..DigestLength |->
        (WeightedSum(data, i) + 3 * i + 11 * Len(data)) % 256]

\* A read of bytes::Buf past the end of the buffer panics.
Panic(at) == [panicked |-> TRUE, at |-> at]
Returns(ret) == [panicked |-> FALSE, ret |-> ret]

\* get_layer: the selector of this layer and the frame of the next, or the
\* panic of the first read that passes the end of its buffer.
get_layer(self) ==
    LET buf == self.cipher_text
        data_size == buf[1]
        data == copy_to_bytes(Tail(buf), data_size)
        digest == Sha512(data.value)
        padding == copy_to_bytes(digest, data_size + 5)
        xor == get_u16_le(padding.rest)
        new_iv == get_u16_le(<<Xor(self.iv % 256, xor.value % 256),
                               Xor(self.iv \div 256, xor.value \div 256)>>)
    IN  IF Len(buf) < 1 THEN Panic("get_u8")
        ELSE IF data_size > Len(buf) - 1 THEN Panic("copy_to_bytes data")
        ELSE IF data_size + 5 > Len(digest) THEN Panic("copy_to_bytes padding")
        ELSE IF Len(padding.rest) < 2 THEN Panic("get_u16_le xor")
        ELSE IF Len(data.value) < 2 THEN Panic("get_u16_le data")
        ELSE Returns(Ok(<<get_u16_le(data.value).value,
                          <<new_iv.value % 256, new_iv.value \div 256>>
                              \o self.public_key \o data.rest
                              \o padding.value>>))

\* The calls as steps of a caller that holds the Onion.
FromBytes(buf) ==
    LET ret == from_bytes(buf)
    IN  /\ onion' = IF ret.ok THEN Some(ret.value) ELSE None
        /\ onion_call' = [op |-> "from_bytes", buf |-> buf, ret |-> ret]

DecryptInPlace(keypair) ==
    /\ onion # None
    /\ LET done == decrypt_in_place(Unwrap(onion), keypair)
       IN  /\ onion' = Some(done.self)
           /\ onion_call' = [op |-> "decrypt_in_place", keypair |-> keypair,
                             before |-> Unwrap(onion), ret |-> done.ret]

\* process_queued_challenge asks for the layer of a frame it has decrypted.
GetLayer ==
    /\ onion # None
    /\ onion' = onion
    /\ onion_call' = [op |-> "get_layer", before |-> Unwrap(onion),
                      outcome |-> get_layer(Unwrap(onion))]

---------------------------------------------------------------------------
(* OnionSpec: a buffer is parsed and the frame decrypted once.  The buffers *)
(* are patterns of every length around the header length, with each kind    *)
(* of first key byte, and sealed frames, whole and tampered with.           *)
PatternLengths == {0, 1, 2, 38, 39, 40, 45}
PatternSeeds == 0..2
PatternSteps == {1, 37}
KeyTypeBytes == {KeyTypeEccCompact, KeyTypeEd25519, 7}
Keypairs == {1, 2}

PatternBuffer(n, seed, step, key_type) ==
    [i \in 1..n |-> IF i = 3 THEN key_type ELSE (seed * 50 + i * step) % 256]

OnionKey(k) == <<KeyTypeEccCompact, k>> \o [i \in 1..31 |-> (7 * i) % 256]

\* "hello world", the plain text of test::decrypt.
HelloWorld == <<104, 101, 108, 108, 111, 32, 119, 111, 114, 108, 100>>

\* A plain text that announces data_size bytes of data, holds n of them and
\* then the bytes of rest.
LayerPlain(data_size, n, rest) ==
    <<data_size>> \o [i \in 1..n |-> (3 * i + 1) % 256] \o rest

PlainTexts ==
    {<<>>, <<104, 105>>, <<2, 7, 0, 9, 9, 9>>, HelloWorld, <<1, 5, 8>>,
     <<0, 6>>, LayerPlain(57, 57, <<9, 9>>), LayerPlain(58, 58, <<9>>),
     LayerPlain(59, 59, <<>>), LayerPlain(60, 60, <<4>>)}

SealedBuffers ==
    {seal(iv, OnionKey(k), 1, plain_text) :
        iv \in {42, 513}, k \in {1, 2}, plain_text \in PlainTexts}

\* A sealed frame with its last byte (of the tag or of the cipher text) changed.
Tampered(buf) == [buf EXCEPT ![Len(buf)] = (@ + 1) % 256]

OnionBuffers ==
    {PatternBuffer(n, seed, step, key_type) :
        n \in PatternLengths, seed \in PatternSeeds, step \in PatternSteps,
        key_type \in KeyTypeBytes}
    \cup SealedBuffers \cup {Tampered(buf) : buf \in SealedBuffers}

outside_onion ==
    <<throttle_vars, airtime_vars, poc_vars, config_vars, history_vars>>
OutsideOnionIdle ==
    ThrottleIdle /\ AirtimeIdle /\ PocIdle /\ ConfigIdle /\ NoHistory

InitOnion ==
    /\ OutsideOnionIdle
    /\ onion = None
    /\ onion_call = NoOnionCall

NextOnion ==
    \/ /\ onion_call.op = "none"
       /\ \E buf \in OnionBuffers : FromBytes(buf)
       /\ UNCHANGED outside_onion
    \/ /\ onion_call.op = "from_bytes"
       /\ \E keypair \in Keypairs : DecryptInPlace(keypair)
       /\ UNCHANGED outside_onion
    \/ /\ onion_call.op = "decrypt_in_place"
       /\ onion_call.ret.ok
       /\ GetLayer
       /\ UNCHANGED outside_onion

OnionSpec == InitOnion /\ [][NextOnion]_vars

---------------------------------------------------------------------------
(* The PoC store (poc/store.rs).  A HashMap is a function on the set of    *)
(* its keys.  QueueReport.received and QueueChallenge.received, the        *)
(* Instant of the insertion, are read by no operation of the client and    *)
(* are left out.                                                           *)

\* HashMap::insert
Insert(map, k, v) ==
    [x \in DOMAIN map \cup {k} |-> IF x = k THEN v ELSE map[x]]

\* impl From<Challenge> for QueueChallenge
QueueChallengeFrom(challenge) == [challenge |-> challenge]

\* impl From<GatewayPocReportReqV1> for QueueReport
QueueReportFrom(v) == [challenger |-> None, report |-> v, retry_count |-> 0]

store_waiting_challenge(self, id, challenge) ==
    [self EXCEPT !.challenges = Insert(@, id, QueueChallengeFrom(challenge))]

store_waiting_report_if_absent(self, id, report) ==
    IF id \in DOMAIN self.reports THEN self
    ELSE [self EXCEPT !.reports = Insert(@, id, QueueReportFrom(report))]

store_waiting_report(self, id, report) ==
    [self EXCEPT !.reports = Insert(@, id, QueueReportFrom(report))]

gc_waiting_reports_below(self, max_retry_count) ==
    [self EXCEPT !.reports =
        [id \in {k \in DOMAIN @ : @[k].retry_count < max_retry_count}
            |-> @[id]]]

gc_waiting_reports_inclusive(self, max_retry_count) ==
    [self EXCEPT !.reports =
        [id \in {k \in DOMAIN @ : /\ @[k].retry_count >= 0
                                   /\ @[k].retry_count <= max_retry_count}
            |-> @[id]]]

gc_waiting_reports(self, max_retry_count) ==
    [self EXCEPT !.reports =
        [id \in {k \in DOMAIN @ : /\ @[k].retry_count >= 0
                                   /\ @[k].retry_count < max_retry_count}
            |-> @[id]]]

---------------------------------------------------------------------------
(* Packets and witness reports (poc/onion.rs, region.rs).  A Packet, a     *)
(* Challenge, a KeyedUri and the RegionParams are records of the fields    *)
(* the code reads.  Frequencies are in thousandths of the unit of          *)
(* BlockchainRegionParamV1.channel_frequency.                              *)

\* Sha256::digest (a library): a stand-in digest, a fixed function of the
\* bytes.
Sha256(bytes) == <<WeightedSum(bytes, 1), WeightedSum(bytes, 5), Len(bytes)>>

\* impl From<&Onion> for PocId
PocId(v) == Sha256(v.public_key)

poc_id(self) == PocId(self)

\* DataRate::from_str (semtech_udp, a library): the names it accepts.
DataRateNames == {"SF7BW125", "SF8BW125", "SF9BW125", "SF10BW125", "SF7BW500"}

DataRateFromStr(str) ==
    IF str \in DataRateNames THEN Ok(str) ELSE Err("datarate")

\* RegionParams::channel: the index of the first channel within 0.001 of
\* frequency.
RECURSIVE channel_scan(_, _, _)
channel_scan(params, frequency, n) ==
    IF params = <<>> THEN None
    ELSE IF /\ Head(params).channel_frequency * 1000 - frequency <= 1
            /\ frequency - Head(params).channel_frequency * 1000 <= 1
         THEN Some(n)
         ELSE channel_scan(Tail(params), frequency, n + 1)

channel(self, frequency) == channel_scan(self.params, frequency, 0)

from_packet_any_channel(packet, region_params) ==
    IF region_params = None THEN Err("no_region_params")
    ELSE LET result == from_bytes(packet.payload)
             datarate == DataRateFromStr(packet.datarate)
             found == channel(Unwrap(region_params), packet.frequency)
         IN  IF ~result.ok THEN result
             ELSE IF ~datarate.ok THEN datarate
             ELSE Ok([result.value EXCEPT
                         !.signal_strength = packet.signal_strength,
                         !.snr = packet.snr,
                         !.timestamp = packet.timestamp,
                         !.frequency = packet.frequency,
                         !.datarate = datarate.value,
                         !.channel = IF found = None THEN 0
                                     ELSE Unwrap(found)])

from_packet(packet, region_params) ==
    IF region_params = None THEN Err("no_region_params")
    ELSE LET result == from_bytes(packet.payload)
             datarate == DataRateFromStr(packet.datarate)
             found == channel(Unwrap(region_params), packet.frequency)
         IN  IF ~result.ok THEN result
             ELSE IF ~datarate.ok THEN datarate
             ELSE IF found = None THEN Err("no_channel")
             ELSE Ok([result.value EXCEPT
                         !.signal_strength = packet.signal_strength,
                         !.snr = packet.snr,
                         !.timestamp = packet.timestamp,
                         !.frequency = packet.frequency,
                         !.datarate = datarate.value,
                         !.channel = Unwrap(found)])

\* as_witness_report; signed says whether witness.sign(keypair) succeeds.
as_witness_report(self, keypair, signed) ==
    IF ~signed THEN Err("sign")
    ELSE Ok([onion_key_hash |-> poc_id(self),
             msg |-> Some([type |-> "witness",
                           packet_hash |-> Sha256(self.tag \o self.cipher_text),
                           gateway |-> keypair,
                           signal |-> self.signal_strength,
                           datarate |-> self.datarate,
                           frequency |-> self.frequency,
                           snr |-> self.snr,
                           channel |-> self.channel,
                           timestamp |-> self.timestamp])])

---------------------------------------------------------------------------
(* PocClient (poc/client.rs).                                              *)
MAX_REPORT_RETRY_COUNT == 20
POC_CONFIG_KEYS == {"block_time", "poc_timeout"}

\* settings.keypair
GatewayKeypair == 1

handle_packet_unsigned(self, st, packet, signed) ==
    LET parsed == from_packet(packet, self.region_params)
        report == as_witness_report(parsed.value, GatewayKeypair, signed)
        unsigned == as_witness_report(parsed.value, GatewayKeypair, TRUE)
    IN  IF ~parsed.ok THEN [ret |-> parsed, store |-> st]
        ELSE IF ~report.ok
        THEN [ret |-> report,
              store |-> store_waiting_report(st, poc_id(parsed.value),
                                             unsigned.value)]
        ELSE [ret |-> Ok("unit"),
              store |-> store_waiting_report(st, poc_id(parsed.value),
                                             report.value)]

\* handle_packet and handle_challenge: the result and the store they leave.
handle_packet(self, st, packet, signed) ==
    LET parsed == from_packet(packet, self.region_params)
        report == as_witness_report(parsed.value, GatewayKeypair, signed)
    IN  IF ~parsed.ok THEN [ret |-> parsed, store |-> st]
        ELSE IF ~report.ok THEN [ret |-> report, store |-> st]
        ELSE [ret |-> Ok("unit"),
              store |-> store_waiting_report(st, poc_id(parsed.value),
                                             report.value)]

handle_challenge(self, st, challenge) ==
    [ret |-> Ok("unit"),
     store |-> store_waiting_challenge(st, challenge.poc_id, challenge)]

\* The arm of run for what messages.recv() gave: the client, the store and
\* the handler's result afterwards.
on_message(self, st, message, signed) ==
    IF message = None
        THEN [client |-> self, store |-> st, ret |-> Ok("closed")]
    ELSE LET m == Unwrap(message) IN
    CASE m.type = "GatewayChanged" ->
            [client |-> [self EXCEPT !.gateway = m.gateway,
                                     !.block_time = None,
                                     !.poc_timeout = None],
             store |-> st, ret |-> Ok("unit")]
      [] m.type = "PocChallenge" ->
            [client |-> self,
             store |-> handle_challenge(self, st, m.challenge).store,
             ret |-> handle_challenge(self, st, m.challenge).ret]
      [] m.type = "PocPacket" ->
            [client |-> self,
             store |-> handle_packet(self, st, m.packet, signed).store,
             ret |-> handle_packet(self, st, m.packet, signed).ret]
      [] m.type = "ConfigChanged" ->
            [client |-> IF m.keys \cap POC_CONFIG_KEYS # {}
                        THEN [self EXCEPT !.block_time = None,
                                          !.poc_timeout = None]
                        ELSE self,
             store |-> st, ret |-> Ok("unit")]
      [] m.type = "RegionParamsChanged" ->
            [client |-> [self EXCEPT !.region_params = m.region_params],
             store |-> st, ret |-> Ok("unit")]

\* find_challenger; lookup is what gateway.poc_challenger gives, a
\* Result<Option<KeyedUri>>.
find_challenger(gateway, id, lookup) ==
    IF gateway = None THEN Ok(None) ELSE lookup

\* process_queued_report; send is what GatewayService::new(uri)? followed
\* by poc_send_report gives: "ok", or "err" when either fails.  Gives the
\* result, the report as left, and the remote calls made (the entry
\* poc_send_report stands for the two calls to the challenger).
process_queued_report(gateway, id, report, lookup, send) ==
    LET found == find_challenger(gateway, id, lookup)
        challenger == IF report.challenger # None THEN report.challenger
                      ELSE IF found.ok THEN found.value ELSE None
        looked_up == IF report.challenger = None /\ gateway # None
                     THEN {<<"poc_challenger", id>>} ELSE {}
    IN  IF challenger = None
        THEN [ret |-> Err("no_service"),
              report |-> [report EXCEPT !.challenger = challenger],
              calls |-> looked_up]
        ELSE [ret |-> IF send = "ok" THEN Ok("unit") ELSE Err("service"),
              report |-> [report EXCEPT !.challenger = challenger],
              calls |-> looked_up \cup {<<"poc_send_report", id>>}]

for_each_report_uncounted(gateway, id, report, lookup, send) ==
    LET sent == process_queued_report(gateway, id, report, lookup, send)
    IN  IF sent.ret.ok
        THEN [report |-> [sent.report EXCEPT !.retry_count = -1],
              ok |-> TRUE, calls |-> sent.calls,
              log |-> {<<"delivered", id>>}]
        ELSE [report |-> sent.report,
              ok |-> FALSE, calls |-> sent.calls,
              log |-> {<<"failed", id>>}]

for_each_report_unmarked(gateway, id, report, lookup, send) ==
    LET sent == process_queued_report(gateway, id, report, lookup, send)
        retry_count == sent.report.retry_count + 1
    IN  IF sent.ret.ok
        THEN [report |-> sent.report,
              ok |-> TRUE, calls |-> sent.calls,
              log |-> {<<"delivered", id>>}]
        ELSE [report |-> [sent.report EXCEPT !.retry_count = retry_count],
              ok |-> FALSE, calls |-> sent.calls,
              log |-> IF retry_count > MAX_REPORT_RETRY_COUNT
                      THEN {<<"dropping", id>>} ELSE {<<"failed", id>>}]

\* The closure handle_queue_timer_tick runs for one report: the report as
\* left, the calls made and the event logged.
for_each_report(gateway, id, report, lookup, send) ==
    LET sent == process_queued_report(gateway, id, report, lookup, send)
        retry_count == sent.report.retry_count + 1
    IN  IF sent.ret.ok
        THEN [report |-> [sent.report EXCEPT !.retry_count = -1],
              ok |-> TRUE, calls |-> sent.calls,
              log |-> {<<"delivered", id>>}]
        ELSE [report |-> [sent.report EXCEPT !.retry_count = retry_count],
              ok |-> FALSE, calls |-> sent.calls,
              log |-> IF retry_count > MAX_REPORT_RETRY_COUNT
                      THEN {<<"dropping", id>>} ELSE {<<"failed", id>>}]

\* What the remote calls can give, and the ways the closure can end for a
\* report.
Challenger1 == [pubkey |-> 21, uri |-> "challenger-1"]
Lookups == {Err("service"), Ok(None), Ok(Some(Challenger1))}
Sends == {"ok", "err"}

Outcomes(gateway, id, report) ==
    {for_each_report(gateway, id, report, lookup, send) :
        lookup \in Lookups, send \in Sends}

\* for_each_concurrent(5, ..): another report is taken from the iterator
\* only while fewer than limit are in flight.
ReportConcurrency == 5

NoLimit(in_flight, limit) == TRUE

BelowLimit(in_flight, limit) == Cardinality(in_flight) < limit

---------------------------------------------------------------------------
(* The steps of run and of the sweep.                                      *)

\* What select! found ready when it chose.
Selected(branch) ==
    [branch |-> branch, shutdown |-> shutdown,
     pending |-> Len(messages.queue), closed |-> messages.closed,
     tick_due |-> queue_timer]

\* select! takes the shutdown arm: run returns.
Shutdown ==
    /\ run.pc = "select"
    /\ shutdown
    /\ run' = [pc |-> "returned", selected |-> Selected("shutdown")]
    /\ UNCHANGED <<client, store, messages, shutdown, queue_timer, sweep,
                   handled, env>>

\* A loop that returned when recv() gives None.
RecvUntilClosed(signed) ==
    /\ run.pc = "select"
    /\ messages.queue # <<>> \/ messages.closed
    /\ LET message == IF messages.queue # <<>>
                      THEN Some(Head(messages.queue)) ELSE None
           after == on_message(client, store, message, signed)
       IN  /\ client' = after.client
           /\ store' = after.store
           /\ handled' = [msg |-> IF message = None THEN [type |-> "None"]
                                  ELSE Unwrap(message),
                          ret |-> after.ret, before |-> store]
           /\ run' = [pc |-> IF message = None THEN "returned" ELSE "select",
                      selected |-> Selected("message")]
    /\ messages' = [messages EXCEPT !.queue = IF @ = <<>> THEN @ ELSE Tail(@)]
    /\ UNCHANGED <<shutdown, queue_timer, sweep, env>>

\* A loop whose sweep were a task of its own, with messages.recv() polled
\* while the sweep is under way.
RecvDuringSweep(signed) ==
    /\ run.pc \in {"select", "sweep"}
    /\ messages.queue # <<>> \/ messages.closed
    /\ LET message == IF messages.queue # <<>>
                      THEN Some(Head(messages.queue)) ELSE None
           after == on_message(client, store, message, signed)
       IN  /\ client' = after.client
           /\ store' = after.store
           /\ handled' = [msg |-> IF message = None THEN [type |-> "None"]
                                  ELSE Unwrap(message),
                          ret |-> after.ret, before |-> store]
    /\ messages' = [messages EXCEPT !.queue = IF @ = <<>> THEN @ ELSE Tail(@)]
    /\ run' = [pc |-> run.pc, selected |-> Selected("message")]
    /\ UNCHANGED <<shutdown, queue_timer, sweep, env>>

\* select! takes the messages.recv() arm: a message, or None once the
\* channel is closed and empty.
Recv(signed) ==
    /\ run.pc = "select"
    /\ messages.queue # <<>> \/ messages.closed
    /\ LET message == IF messages.queue # <<>>
                      THEN Some(Head(messages.queue)) ELSE None
           after == on_message(client, store, message, signed)
       IN  /\ client' = after.client
           /\ store' = after.store
           /\ handled' = [msg |-> IF message = None THEN [type |-> "None"]
                                  ELSE Unwrap(message),
                          ret |-> after.ret, before |-> store]
    /\ messages' = [messages EXCEPT !.queue = IF @ = <<>> THEN @ ELSE Tail(@)]
    /\ run' = [pc |-> "select", selected |-> Selected("message")]
    /\ UNCHANGED <<shutdown, queue_timer, sweep, env>>

\* select! takes the queue_timer.tick() arm: handle_queue_timer_tick starts.
\* With no report waiting the stream is empty and the handler goes straight
\* to gc_waiting_reports.
QueueTimerTick ==
    /\ run.pc = "select"
    /\ queue_timer
    /\ queue_timer' = FALSE
    /\ sweep' = [active |-> DOMAIN store.reports # {},
                 start |-> store.reports,
                 challenges |-> DOMAIN store.challenges,
                 pending |-> DOMAIN store.reports,
                 in_flight |-> {},
                 attempts |-> [id \in DOMAIN store.reports |-> 0],
                 done |-> {}, calls |-> {}, log |-> {}]
    /\ run' = [pc |-> IF DOMAIN store.reports # {} THEN "sweep" ELSE "select",
               selected |-> Selected("tick")]
    /\ store' = IF DOMAIN store.reports # {} THEN store
                ELSE gc_waiting_reports(store, MAX_REPORT_RETRY_COUNT)
    /\ UNCHANGED <<client, messages, shutdown, handled, env>>

\* for_each_concurrent starts the closure for the next report.
SweepLaunch(id) ==
    /\ run.pc = "sweep"
    /\ id \in sweep.pending
    /\ BelowLimit(sweep.in_flight, ReportConcurrency)
    /\ sweep' = [sweep EXCEPT !.pending = @ \ {id},
                              !.in_flight = @ \cup {id},
                              !.attempts[id] = @ + 1]
    /\ UNCHANGED <<client, store, messages, shutdown, queue_timer, run,
                   handled, env>>

\* The closure for one report completes; after the last one the handler
\* runs gc_waiting_reports and run is back at select!.
SweepComplete(id, each) ==
    /\ run.pc = "sweep"
    /\ id \in sweep.in_flight
    /\ LET marked == [store EXCEPT !.reports[id] = each.report]
           last == sweep.pending = {} /\ sweep.in_flight = {id}
       IN  /\ store' = IF last
                       THEN gc_waiting_reports(marked, MAX_REPORT_RETRY_COUNT)
                       ELSE marked
           /\ sweep' = [sweep EXCEPT
                           !.active = ~last,
                           !.in_flight = @ \ {id},
                           !.done = @ \cup {[poc_id |-> id, ok |-> each.ok,
                                             retry_count |->
                                                 each.report.retry_count]},
                           !.calls = @ \cup each.calls,
                           !.log = @ \cup each.log]
           /\ run' = [run EXCEPT !.pc = IF last THEN "select" ELSE "sweep"]
    /\ UNCHANGED <<client, messages, shutdown, queue_timer, handled, env>>

---------------------------------------------------------------------------
(* The environment of the client: senders, the shutdown trigger, time.     *)
MaxMessages == 3
MaxTicks == 1
ChannelSize == 1

\* MessageSender: send waits while the channel is full, and fails once run
\* has returned and dropped the receiver.
Send(message) ==
    /\ run.pc # "returned"
    /\ ~messages.closed
    /\ Len(messages.queue) < ChannelSize
    /\ env.sent < MaxMessages
    /\ messages' = [messages EXCEPT !.queue = Append(@, message)]
    /\ env' = [env EXCEPT !.sent = @ + 1]
    /\ UNCHANGED <<client, store, shutdown, queue_timer, run, sweep, handled>>

\* The last MessageSender is dropped.
CloseChannel ==
    /\ ~messages.closed
    /\ messages' = [messages EXCEPT !.closed = TRUE]
    /\ UNCHANGED <<client, store, shutdown, queue_timer, run, sweep, handled,
                   env>>

\* The shutdown trigger is pulled.
Trigger ==
    /\ ~shutdown
    /\ shutdown' = TRUE
    /\ UNCHANGED <<client, store, messages, queue_timer, run, sweep, handled,
                   env>>

\* CHECK_QUEUE_INTERVAL has passed since the last tick was taken.
TimerExpires ==
    /\ ~queue_timer
    /\ run.pc # "returned"
    /\ env.ticks < MaxTicks
    /\ queue_timer' = TRUE
    /\ env' = [env EXCEPT !.ticks = @ + 1]
    /\ UNCHANGED <<client, store, messages, shutdown, run, sweep, handled>>

---------------------------------------------------------------------------
(* PocSpec: the client from its construction, with a few messages.         *)
Gateway1 == [uri |-> "validator-1"]
RegionParams1 ==
    [region |-> "US915",
     params |-> <<[channel_frequency |-> 903], [channel_frequency |-> 904]>>]

PacketOf(payload, frequency, datarate) ==
    [payload |-> payload, signal_strength |-> -80, snr |-> 5,
     timestamp |-> 1000, frequency |-> frequency, datarate |-> datarate]

Packets ==
    {PacketOf(seal(42, OnionKey(1), GatewayKeypair, <<104, 105>>),
              904000, "SF7BW125"),
     PacketOf(seal(42, OnionKey(1), GatewayKeypair, <<2, 7, 0, 9, 9, 9>>),
              903001, "SF8BW125"),
     PacketOf(seal(513, OnionKey(2), GatewayKeypair, <<104, 105>>),
              904000, "SF7BW125"),
     PacketOf(seal(42, OnionKey(1), GatewayKeypair, <<104, 105>>),
              905500, "SF7BW125"),
     PacketOf(seal(42, OnionKey(1), GatewayKeypair, <<104, 105>>),
              904000, "SF13BW125"),
     PacketOf(PatternBuffer(38, 0, 1, KeyTypeEccCompact), 904000, "SF7BW125"),
     PacketOf(PatternBuffer(45, 0, 1, 7), 904000, "SF7BW125")}

Challenges ==
    {[poc_id |-> Sha256(OnionKey(1)), challenger |-> Challenger1]}

Messages ==
    {[type |-> "GatewayChanged", gateway |-> g] : g \in {None, Some(Gateway1)}}
    \cup {[type |-> "PocChallenge", challenge |-> c] : c \in Challenges}
    \cup {[type |-> "PocPacket", packet |-> p] : p \in Packets}
    \cup {[type |-> "ConfigChanged", keys |-> k] :
            k \in {{"block_time"}, {"log_level"}}}
    \cup {[type |-> "RegionParamsChanged", region_params |-> r] :
            r \in {None, Some(RegionParams1)}}


outside_poc ==
    <<throttle_vars, airtime_vars, onion_vars, config_vars, history_vars>>
OutsidePocIdle ==
    ThrottleIdle /\ AirtimeIdle /\ OnionIdle /\ ConfigIdle /\ NoHistory

InitPoc ==
    /\ OutsidePocIdle
    /\ PocIdle

NextPoc ==
    \/ Shutdown /\ UNCHANGED outside_poc
    \/ (\E signed \in BOOLEAN : Recv(signed)) /\ UNCHANGED outside_poc
    \/ QueueTimerTick /\ UNCHANGED outside_poc
    \/ (\E id \in sweep.pending : SweepLaunch(id)) /\ UNCHANGED outside_poc
    \/ (\E id \in sweep.in_flight :
            \E each \in Outcomes(client.gateway, id, store.reports[id]) :
                SweepComplete(id, each)) /\ UNCHANGED outside_poc
    \/ (\E message \in Messages : Send(message)) /\ UNCHANGED outside_poc
    \/ CloseChannel /\ UNCHANGED outside_poc
    \/ Trigger /\ UNCHANGED outside_poc
    \/ TimerExpires /\ UNCHANGED outside_poc

PocSpec == InitPoc /\ [][NextPoc]_vars

\* HandleSpec: PocSpec without shutdown, without the closing of the channel
\* and with the one tick that is due from the start.
NextHandle ==
    \/ (\E message \in Messages : Send(message)) /\ UNCHANGED outside_poc
    \/ (\E signed \in BOOLEAN : Recv(signed)) /\ UNCHANGED outside_poc
    \/ QueueTimerTick /\ UNCHANGED outside_poc
    \/ (\E id \in sweep.pending : SweepLaunch(id)) /\ UNCHANGED outside_poc
    \/ (\E id \in sweep.in_flight :
            \E each \in Outcomes(client.gateway, id, store.reports[id]) :
                SweepComplete(id, each)) /\ UNCHANGED outside_poc

HandleSpec == InitPoc /\ [][NextHandle]_vars

---------------------------------------------------------------------------
(* SweepSpec: a client whose store already holds reports, some of them     *)
(* with a resolved challenger and some close to the retry ceiling; a tick  *)
(* is due and a packet may be waiting in the channel.                      *)
MaxReports == 6
StoredRetryCounts == <<18, 0, 19, 0, 19, 1, 0>>

StoredReport(k) ==
    [challenger |-> IF k % 2 = 1 THEN Some(Challenger1) ELSE None,
     report |-> as_witness_report(
                    from_packet(PacketOf(seal(42, OnionKey(k), GatewayKeypair,
                                              <<104, 105>>),
                                         904000, "SF7BW125"),
                                Some(RegionParams1)).value,
                    GatewayKeypair, TRUE).value,
     retry_count |-> StoredRetryCounts[k]]

StoredReports(n) ==
    [id \in {Sha256(OnionKey(k)) : k \in 1..n} |->
        StoredReport(CHOOSE k \in 1..n : Sha256(OnionKey(k)) = id)]

\* A second packet with the onion key of the first stored report.
WaitingPackets ==
    {[type |-> "PocPacket",
      packet |-> PacketOf(seal(42, OnionKey(1), GatewayKeypair,
                               <<2, 7, 0, 9, 9, 9>>), 903001, "SF8BW125")]}

InitSweep ==
    /\ OutsidePocIdle
    /\ client \in {[NewClient EXCEPT !.gateway = g,
                                      !.region_params = Some(RegionParams1)] :
                      g \in {None, Some(Gateway1)}}
    /\ store \in {[challenges |-> Insert(<<>>, c.poc_id, QueueChallengeFrom(c)),
                   reports |-> StoredReports(n)] :
                      c \in Challenges, n \in 0..MaxReports}
    /\ messages \in {[queue |-> q, closed |-> FALSE] :
                        q \in {<<>>} \cup {<<m>> : m \in WaitingPackets}}
    /\ shutdown = FALSE
    /\ queue_timer = TRUE
    /\ run = [pc |-> "select", selected |-> NoneSelected]
    /\ sweep = NoSweep
    /\ handled = NoneHandled
    /\ env = [sent |-> 0, ticks |-> 0]

NextSweep ==
    \/ (\E signed \in BOOLEAN : Recv(signed)) /\ UNCHANGED outside_poc
    \/ QueueTimerTick /\ UNCHANGED outside_poc
    \/ (\E id \in sweep.pending : SweepLaunch(id)) /\ UNCHANGED outside_poc
    \/ (\E id \in sweep.in_flight :
            \E each \in Outcomes(client.gateway, id, store.reports[id]) :
                SweepComplete(id, each)) /\ UNCHANGED outside_poc

SweepSpec == InitSweep /\ [][NextSweep]_vars

---------------------------------------------------------------------------
(* LiveSpec: the client with a few stored reports, at most a challenge     *)
(* notification in the channel (no packet arrives, so no report is         *)
(* overwritten), and a timer that goes on firing every                     *)
(* CHECK_QUEUE_INTERVAL.                                                   *)
(* select! polls its arms in random order, so an arm that stays ready is   *)
(* taken; the interval timer stays ready until its tick is taken; the      *)
(* stream of for_each_concurrent is polled until it is exhausted; that a   *)
(* remote call returns is the assumption under which the client is studied. *)
MaxLiveReports == 2

LateChallenge == [poc_id |-> Sha256(OnionKey(2)), challenger |-> Challenger1]

\* queue_timer: the interval has passed again.
TimerFires ==
    /\ ~queue_timer
    /\ run.pc # "returned"
    /\ queue_timer' = TRUE
    /\ UNCHANGED <<client, store, messages, shutdown, run, sweep, handled,
                   env>>

InitLive ==
    /\ OutsidePocIdle
    /\ client \in {[NewClient EXCEPT !.gateway = g,
                                      !.region_params = Some(RegionParams1)] :
                      g \in {None, Some(Gateway1)}}
    /\ store \in {[challenges |-> <<>>, reports |-> StoredReports(n)] :
                      n \in 0..MaxLiveReports}
    /\ messages \in {[queue |-> q, closed |-> FALSE] :
                        q \in {<<>>, <<[type |-> "PocChallenge",
                                        challenge |-> LateChallenge]>>}}
    /\ shutdown = FALSE
    /\ queue_timer = TRUE
    /\ run = [pc |-> "select", selected |-> NoneSelected]
    /\ sweep = NoSweep
    /\ handled = NoneHandled
    /\ env = [sent |-> 0, ticks |-> 0]

LiveRecv == (\E signed \in BOOLEAN : Recv(signed)) /\ UNCHANGED outside_poc

LiveTick == QueueTimerTick /\ UNCHANGED outside_poc

LiveLaunch ==
    (\E id \in sweep.pending : SweepLaunch(id)) /\ UNCHANGED outside_poc

LiveComplete ==
    /\ \E id \in sweep.in_flight :
          \E each \in Outcomes(client.gateway, id, store.reports[id]) :
              SweepComplete(id, each)
    /\ UNCHANGED outside_poc

LiveTimer == TimerFires /\ UNCHANGED outside_poc

NextLive ==
    \/ LiveRecv
    \/ LiveTick
    \/ LiveLaunch
    \/ LiveComplete
    \/ LiveTimer

LiveSpec ==
    /\ InitLive
    /\ [][NextLive]_vars
    /\ WF_vars(LiveRecv)
    /\ WF_vars(LiveTick)
    /\ WF_vars(LiveLaunch)
    /\ WF_vars(LiveComplete)
    /\ WF_vars(LiveTimer)

---------------------------------------------------------------------------
(* LoopSpec: run with a few stored reports, at most a packet waiting in    *)
(* the channel, a tick that is due and a timer that fires again, and      *)
(* senders and a shutdown trigger that act at any moment, also while a     *)
(* sweep is under way.                                                     *)
InitLoop ==
    /\ OutsidePocIdle
    /\ client \in {[NewClient EXCEPT !.gateway = g,
                                      !.region_params = Some(RegionParams1)] :
                      g \in {None, Some(Gateway1)}}
    /\ store \in {[challenges |-> <<>>, reports |-> StoredReports(n)] :
                      n \in 0..MaxLiveReports}
    /\ messages \in {[queue |-> q, closed |-> FALSE] :
                        q \in {<<>>} \cup {<<m>> : m \in WaitingPackets}}
    /\ shutdown = FALSE
    /\ queue_timer = TRUE
    /\ run = [pc |-> "select", selected |-> NoneSelected]
    /\ sweep = NoSweep
    /\ handled = NoneHandled
    /\ env = [sent |-> 0, ticks |-> 0]

outside_loop == <<throttle_vars, airtime_vars, onion_vars, config_vars>>

\* The reports a step puts into the store: new entries and replaced ones.
Inserted ==
    {id \in DOMAIN store'.reports :
        id \in DOMAIN store.reports => store'.reports[id] # store.reports[id]}

LoopRecv ==
    /\ \E signed \in BOOLEAN : Recv(signed)
    /\ delivered' = delivered \ Inserted
    /\ UNCHANGED outside_loop

LoopComplete ==
    /\ \E id \in sweep.in_flight :
          \E each \in Outcomes(client.gateway, id, store.reports[id]) :
              /\ SweepComplete(id, each)
              /\ delivered' = IF each.ok THEN delivered \cup {id} ELSE delivered
    /\ UNCHANGED outside_loop

NextLoop ==
    \/ Shutdown /\ UNCHANGED outside_poc
    \/ LoopRecv
    \/ QueueTimerTick /\ UNCHANGED outside_poc
    \/ (\E id \in sweep.pending : SweepLaunch(id)) /\ UNCHANGED outside_poc
    \/ LoopComplete
    \/ CloseChannel /\ UNCHANGED outside_poc
    \/ Trigger /\ UNCHANGED outside_poc
    \/ TimerExpires /\ UNCHANGED outside_poc

LoopSpec == InitLoop /\ [][NextLoop]_vars

---------------------------------------------------------------------------
(* ClosedSpec: run with a few stored reports while the last sender is      *)
(* dropped and the shutdown trigger is pulled at any moment; a tick is due *)
(* and the timer fires again.                                              *)
(* select! (without `biased;`) starts polling at a random arm on every     *)
(* iteration, so an arm that is ready again and again is taken: strong     *)
(* fairness for the three arms.  After the channel is closed recv() gives  *)
(* None at once on every iteration, and the other two arms are still       *)
(* polled.  The closures of a sweep are polled until the stream is         *)
(* exhausted, and that a remote call returns is the assumption under which *)
(* the client is studied: weak fairness for the steps of the sweep.        *)
ClosedShutdown == Shutdown /\ UNCHANGED outside_poc

ClosedTimer == TimerExpires /\ UNCHANGED outside_poc

NextClosed ==
    \/ ClosedShutdown
    \/ LiveRecv
    \/ LiveTick
    \/ LiveLaunch
    \/ LiveComplete
    \/ ClosedTimer
    \/ CloseChannel /\ UNCHANGED outside_poc
    \/ Trigger /\ UNCHANGED outside_poc

ClosedSpec ==
    /\ InitLive
    /\ [][NextClosed]_vars
    /\ SF_vars(ClosedShutdown)
    /\ SF_vars(LiveRecv)
    /\ SF_vars(LiveTick)
    /\ WF_vars(LiveLaunch)
    /\ WF_vars(LiveComplete)

---------------------------------------------------------------------------
(* The cached chain variables block_time and poc_timeout (client.rs) and   *)
(* their conversion (traits/to_value.rs).  A BlockchainVarV1 is a record   *)
(* of its name, its type and the bytes of its value.                       *)

\* str::parse::<u64>: decimal digits, with an optional leading '+'.  Values
\* beyond u64 are not among the inputs.
RECURSIVE parse_digits(_, _)
parse_digits(bytes, acc) ==
    IF bytes = <<>> THEN Ok(acc)
    ELSE IF Head(bytes) \notin 48..57 THEN Err("parse")
    ELSE parse_digits(Tail(bytes), 10 * acc + (Head(bytes) - 48))

parse_u64(bytes) ==
    LET digits == IF bytes # <<>> /\ Head(bytes) = 43 THEN Tail(bytes)
                  ELSE bytes
    IN  IF digits = <<>> THEN Err("parse") ELSE parse_digits(digits, 0)

\* std::str::from_utf8 on the inputs used here, single bytes: a byte above
\* 127 on its own is not UTF-8.
from_utf8(bytes) ==
    IF \E i \in 1..Len(bytes) : bytes[i] > 127 THEN Err("utf8") ELSE Ok(bytes)

\* impl ToValue<u64> for BlockchainVarV1
to_value(self) ==
    IF self.type # "int" THEN Err("not an int variable")
    ELSE IF ~from_utf8(self.value).ok THEN Err("not a valid value")
    ELSE IF ~parse_u64(self.value).ok THEN Err("not a valid int value")
    ELSE parse_u64(self.value)

\* The body of the future _get_config(): served is what gateway.config
\* gives, a Result<Vec<BlockchainVarV1>>.  block_time is kept in
\* milliseconds; `v as u8` keeps the low 8 bits.
_get_config(self, served) ==
    IF self.gateway = None THEN self
    ELSE IF ~served.ok \/ Len(served.value) # 2 THEN self
    ELSE [self EXCEPT
             !.block_time = IF to_value(served.value[1]).ok
                            THEN Some(to_value(served.value[1]).value)
                            ELSE None,
             !.poc_timeout = IF to_value(served.value[2]).ok
                             THEN Some(to_value(served.value[2]).value % 256)
                             ELSE None]

\* A future that is made and dropped without .await: its body never runs
\* and the client is as it was.
unawaited(self, future) == self

\* poc_timeout() and block_time(): the value returned and the client after.
poc_timeout(self, served) ==
    LET after == IF self.poc_timeout = None
                 THEN unawaited(self, _get_config(self, served)) ELSE self
    IN  [ret |-> after.poc_timeout, self |-> after]

block_time(self, served) ==
    LET after == IF self.block_time = None
                 THEN unawaited(self, _get_config(self, served)) ELSE self
    IN  [ret |-> after.block_time, self |-> after]

\* A handler of run asks for a cached variable.
PocTimeout(served) ==
    /\ run.pc = "select"
    /\ client' = poc_timeout(client, served).self
    /\ config_call' = [op |-> "poc_timeout", before |-> client,
                       after_message |-> handled.msg, served |-> served,
                       ret |-> poc_timeout(client, served).ret]
    /\ UNCHANGED <<store, messages, shutdown, queue_timer, run, sweep,
                   handled, env>>

BlockTime(served) ==
    /\ run.pc = "select"
    /\ client' = block_time(client, served).self
    /\ config_call' = [op |-> "block_time", before |-> client,
                       after_message |-> handled.msg, served |-> served,
                       ret |-> block_time(client, served).ret]
    /\ UNCHANGED <<store, messages, shutdown, queue_timer, run, sweep,
                   handled, env>>

---------------------------------------------------------------------------
(* ConfigSpec: the client from its construction; gateway and configuration *)
(* changes arrive, and the cached variables are asked for.                 *)
Var(name, type, value) == [name |-> name, type |-> type, value |-> value]

\* What gateway.config(POC_CONFIG_KEYS) may serve: an error; "30000" and
\* "10"; "30000" and "300"; one variable only; a variable that is no int;
\* a value that is no number.
Served ==
    {Err("service"),
     Ok(<<Var("block_time", "int", <<51, 48, 48, 48, 48>>),
          Var("poc_timeout", "int", <<49, 48>>)>>),
     Ok(<<Var("block_time", "int", <<51, 48, 48, 48, 48>>),
          Var("poc_timeout", "int", <<51, 48, 48>>)>>),
     Ok(<<Var("block_time", "int", <<51, 48, 48, 48, 48>>)>>),
     Ok(<<Var("block_time", "string", <<51, 48, 48, 48, 48>>),
          Var("poc_timeout", "int", <<49, 48>>)>>),
     Ok(<<Var("block_time", "int", <<49, 120>>),
          Var("poc_timeout", "int", <<255>>)>>)}

ConfigMessages ==
    {[type |-> "GatewayChanged", gateway |-> g] : g \in {None, Some(Gateway1)}}
    \cup {[type |-> "ConfigChanged", keys |-> k] :
            k \in {{"block_time"}, {"poc_timeout", "log_level"},
                   {"log_level"}}}

outside_config == <<throttle_vars, airtime_vars, onion_vars, history_vars>>

InitConfig ==
    /\ OutsidePocIdle
    /\ PocIdle

NextConfig ==
    \/ (\E message \in ConfigMessages : Send(message))
           /\ UNCHANGED outside_poc
    \/ (\E signed \in {TRUE} : Recv(signed)) /\ UNCHANGED outside_poc
    \/ (\E served \in Served : PocTimeout(served))
           /\ UNCHANGED outside_config
    \/ (\E served \in Served : BlockTime(served))
           /\ UNCHANGED outside_config

ConfigSpec == InitConfig /\ [][NextConfig]_vars

---------------------------------------------------------------------------
(* Properties of Spec.                                                     *)
Called(op) == last_call.op = op

MaxSentAt(s) ==
    CHOOSE t \in {s[i].sent_at : i \in 1..Len(s)} :
        \A i \in 1..Len(s) : s[i].sent_at <= t

OnFrequency(s, frequency) ==
    LET same(sent_packet) == sent_packet.frequency = frequency
    IN  SelectSeq(s, same)

\* C1: whatever the model and the tracked history, a can_send call whose
\* time_on_air is above 400 ms returns false.
C1_OverCeilingDenied ==
    (Called("can_send") /\ last_call.time_on_air > Ms(MAX_TIME_ON_AIR))
        => last_call.outcome = "false"

C1_Witness ==
    /\ Called("can_send")
    /\ last_call.time_on_air > Ms(MAX_TIME_ON_AIR)
    /\ model = Some(common_duty)
    /\ Len(sent_packets) = 2
    /\ last_call.outcome = "false"

\* C2: a throttle without a model returns false from every can_send call,
\* also after track_sent calls.
C2_UnregulatedDenied ==
    (Called("can_send") /\ model = None) => last_call.outcome = "false"

C2_Witness ==
    /\ Called("can_send")
    /\ model = None
    /\ Len(all_sent) = 2
    /\ last_call.time_on_air <= Ms(MAX_TIME_ON_AIR)
    /\ last_call.outcome = "false"

\* C5: under Dwell, can_send(t, f, toa) returns what it returns on the
\* history with every record of another frequency removed.
C5_DwellPerFrequency ==
    (Called("can_send") /\ model = Some(us_dwell_time))
        => last_call.outcome =
               can_send(model, OnFrequency(sent_packets, last_call.frequency),
                        last_call.time, last_call.frequency,
                        last_call.time_on_air)

C5_Witness ==
    /\ Called("can_send")
    /\ model = Some(us_dwell_time)
    /\ last_call.outcome = "true"
    /\ \E i \in 1..Len(sent_packets) :
          /\ sent_packets[i].frequency # last_call.frequency
          /\ sent_packets[i].time_on_air = Ms(MAX_TIME_ON_AIR)
          /\ sent_packets[i].sent_at = last_call.time

\* C7: on a regulated throttle every retained record is younger than one
\* period before the greatest retained sent_at, hence also younger than one
\* period before the record just inserted; a record inserted out of order
\* that is already that old is not retained.
C7_WindowTrimmed ==
    (model # None /\ sent_packets # <<>>) =>
        LET p == period(Unwrap(model)) IN
        /\ \A i \in 1..Len(sent_packets) :
              sent_packets[i].sent_at > MaxSentAt(sent_packets) - p
        /\ Called("track_sent") =>
              /\ \A i \in 1..Len(sent_packets) :
                    sent_packets[i].sent_at > last_call.time - p
              /\ last_call.time <= MaxSentAt(all_sent) - p =>
                    \A i \in 1..Len(sent_packets) :
                        sent_packets[i].sent_at # last_call.time

C7_Witness ==
    /\ model # None
    /\ Called("track_sent")
    /\ Len(all_sent) = 2
    /\ Len(sent_packets) = 1
    /\ last_call.time < sent_packets[1].sent_at

\* C8: sent_packets is in ascending sent_at order after any track_sent calls.
C8_Ascending == IsAscending(sent_packets)

C8_Witness ==
    /\ Called("track_sent")
    /\ Len(sent_packets) = 2
    /\ sent_packets[1].sent_at = last_call.time
    /\ sent_packets[1].sent_at < sent_packets[2].sent_at

\* C9: a can_send call made at or after the greatest tracked sent_at returns
\* what the same check returns on the complete, never trimmed history.
C9_TrimmingExact ==
    (Called("can_send") /\ model # None /\ all_sent # <<>>
        /\ last_call.time >= MaxSentAt(all_sent))
        => last_call.outcome =
               can_send(model, all_sent, last_call.time, last_call.frequency,
                        last_call.time_on_air)

---------------------------------------------------------------------------
(* Properties of Us915Spec.                                                *)

\* C3: under Dwell, once one 400 ms transmission is tracked at t0 on
\* frequency f (and nothing else on f, nothing later than t0), can_send(t, f,
\* 400) is false for t0 <= t < t0 + period and true for t >= t0 + period.
C3_DwellWindow ==
    (/\ Called("can_send")
     /\ model = Some(us_dwell_time)
     /\ last_call.time_on_air = Ms(MAX_TIME_ON_AIR)
     /\ OnFrequency(all_sent, last_call.frequency)
            = <<SentPacket(last_call.frequency, T0, Ms(MAX_TIME_ON_AIR))>>
     /\ \A i \in 1..Len(all_sent) : all_sent[i].sent_at = T0
     /\ last_call.time >= T0)
        => last_call.outcome =
               Bool(last_call.time >= T0 + period(us_dwell_time))

C3_Witness ==
    /\ Called("can_send")
    /\ model = Some(us_dwell_time)
    /\ last_call.time_on_air = Ms(MAX_TIME_ON_AIR)
    /\ sent_packets
           = <<SentPacket(last_call.frequency, T0, Ms(MAX_TIME_ON_AIR))>>
    /\ last_call.time = T0 + period(us_dwell_time) - 1
    /\ last_call.outcome = "false"

\* C4: under Dwell with nothing tracked, can_send(t, f, toa) is true exactly
\* when toa <= limit: true for 400.0 ms, false for 400.01 ms.
C4_EmptyDwell ==
    (Called("can_send") /\ model = Some(us_dwell_time) /\ sent_packets = <<>>)
        => (last_call.outcome = "true"
               <=> last_call.time_on_air <= Ms(us_dwell_time.limit.num))

C4_Witness ==
    /\ Called("can_send")
    /\ model = Some(us_dwell_time)
    /\ all_sent = <<>>
    /\ last_call.time_on_air = Ms(400)
    /\ last_call.outcome = "true"

---------------------------------------------------------------------------
(* Properties of Eu868Spec.                                                *)

\* C6: each of the 3599 can_send checks of the loop returns true, and the
\* check for 10 ms on the other channel that follows returns false.
C6_DutyCycleTest ==
    /\ test.pc = "track" => last_call.outcome = "true"
    /\ test.pc = "done" =>
          /\ Len(all_sent) = Eu868Packets
          /\ last_call.outcome = "false"

C6_Witness ==
    /\ test.pc = "done"
    /\ last_call.frequency = 1
    /\ last_call.outcome = "false"
    /\ Len(sent_packets) = Eu868Packets

---------------------------------------------------------------------------
(* Properties of EpochSpec.                                                *)

\* C10: the pro-rated contribution time_on_air - (cutoff - sent_at) of a
\* record that started at or before the cutoff is never negative, so the
\* assert! in dwell_time never fails and no can_send call panics.
C10_AssertHolds == last_call.outcome # "panic"

---------------------------------------------------------------------------
(* Properties of AirSpec.                                                  *)

\* C11: at 125 kHz with an explicit header, code rate 5 and a preamble of 8
\* symbols, time_on_air truncated to whole milliseconds is, for payloads of
\* 7 and of 51 bytes: SF12 991/2465, SF11 495/1314, SF10 247/616,
\* SF9 123/328, SF8 72/184, SF7 36/102.
C11_RegressionTable ==
    (/\ airtime.op = "time_on_air"
     /\ airtime.bandwidth = 125000
     /\ airtime.explicit_header
     /\ airtime.code_rate = 5
     /\ airtime.preamble_symbols = 8
     /\ airtime.payload_len \in {7, 51})
    => /\ ~airtime.panic
       /\ airtime.ms =
              (IF airtime.payload_len = 7
               THEN <<36, 72, 123, 247, 495, 991>>
               ELSE <<102, 184, 328, 616, 1314, 2465>>)[airtime.spreading_factor - 6]

C11_Witness ==
    /\ airtime.op = "time_on_air"
    /\ airtime.spreading_factor = 12
    /\ airtime.bandwidth = 125000
    /\ airtime.explicit_header
    /\ airtime.code_rate = 5
    /\ airtime.preamble_symbols = 8
    /\ airtime.payload_len = 51
    /\ airtime.ms = 2465

\* The ceiling of n / d for integers n and d > 0.
CeilDiv(n, d) == -((-n) \div d)

\* 8*payload_len - 4*SF + 28 + 16 - 20*h of the call, as an integer.
Numerator(h) ==
    8 * airtime.payload_len - 4 * airtime.spreading_factor + 28 + 16 - 20 * h

\* 4*(SF - 2*ldo) of the call; ldo is 1 exactly when bandwidth <= 125000 and
\* SF >= 11 (in payload_symbols called on its own, the flag it is given).
Denominator ==
    4 * (airtime.spreading_factor
         - 2 * U32FromBool(IF airtime.op = "time_on_air"
                           THEN airtime.bandwidth <= 125000
                                /\ airtime.spreading_factor >= 11
                           ELSE airtime.low_datarate_optimized))

Max0(x) == IF x > 0 THEN x ELSE 0

\* C12, as claimed: payload_symbols is
\* 8 + max(0, ceil((8*payload_len - 4*SF + 28 + 16 - 20*h) / (4*(SF - 2*ldo))))
\* * code_rate with h = 1 when explicit_header is true and 0 when it is not.
C12_PayloadSymbolsFormula ==
    airtime.op # "none" =>
        /\ ~airtime.panic
        /\ airtime.symbols =
               8 + Max0(CeilDiv(Numerator(U32FromBool(airtime.explicit_header)),
                                Denominator)) * airtime.code_rate

\* C12, amended: the same with h = 1 when explicit_header is false and 0 when
\* it is true, for every call with 8*payload_len >= 4*SF.  For a shorter
\* payload the u32 subtraction underflows: the call panics in a build with
\* overflow checks; in a build without, the numerator wraps modulo 2^32, and
\* the result is the formula's when the numerator is not negative and a
\* number above 2^26 (never the clamped 8) when it is.
C12_PayloadSymbolsAmended ==
    airtime.op # "none" =>
        LET n == Numerator(1 - U32FromBool(airtime.explicit_header))
            formula == 8 + Max0(CeilDiv(n, Denominator)) * airtime.code_rate
        IN  IF 8 * airtime.payload_len >= 4 * airtime.spreading_factor
            THEN ~airtime.panic /\ airtime.symbols = formula
            ELSE IF airtime.overflow_checks THEN airtime.panic
            ELSE /\ ~airtime.panic
                 /\ IF n >= 0 THEN airtime.symbols = formula
                    ELSE airtime.symbols > 2^26

C12_Witness ==
    /\ airtime.op = "payload_symbols"
    /\ airtime.spreading_factor = 12
    /\ airtime.low_datarate_optimized
    /\ airtime.explicit_header
    /\ airtime.payload_len = 51
    /\ airtime.code_rate = 5
    /\ airtime.symbols = 63

\* C32: for a call whose numerator 8*payload_len - 4*SF + 28 + 16 - 20*h is
\* zero or negative, or whose difference 8*payload_len - 4*SF is negative,
\* payload_symbols returns the value the formula with max(0, ..) prescribes,
\* without a panic and without a wrapped u32 (h as the code takes it: 1 for
\* an implicit header).
C32_ClampedNotWrapped ==
    airtime.op # "none" =>
        LET n == Numerator(1 - U32FromBool(airtime.explicit_header))
        IN  (n <= 0 \/ 8 * airtime.payload_len < 4 * airtime.spreading_factor)
                => /\ ~airtime.panic
                   /\ airtime.symbols =
                          8 + Max0(CeilDiv(n, Denominator)) * airtime.code_rate

---------------------------------------------------------------------------
(* Properties of GuardedSpec.  Times are in ticks.                         *)
Min(a, b) == IF a < b THEN a ELSE b

\* How long the transmission is on air between from and from + length.
Overlap(sent_packet, from, length) ==
    Max0(Min(sent_packet.sent_at * TicksPerMs + sent_packet.time_on_air,
             from + length)
         - (IF sent_packet.sent_at * TicksPerMs > from
            THEN sent_packet.sent_at * TicksPerMs ELSE from))

\* The airtime of the transmissions s between from and from + length.
RECURSIVE Airtime(_, _, _)
Airtime(s, from, length) ==
    IF s = <<>> THEN 0
    ELSE Overlap(Head(s), from, length) + Airtime(Tail(s), from, length)

\* The airtime inside a window is piecewise linear in the window's start; it
\* is greatest for a window that starts or ends where a transmission starts
\* or ends.
WindowStarts(s, length) ==
    UNION {{s[i].sent_at * TicksPerMs,
            s[i].sent_at * TicksPerMs + s[i].time_on_air,
            s[i].sent_at * TicksPerMs - length,
            s[i].sent_at * TicksPerMs + s[i].time_on_air - length} :
               i \in 1..Len(s)}

\* C33: when track_sent(t, f, toa) is called only right after
\* can_send(t, f, toa) returned true, with non-decreasing t, the airtime
\* transmitted stays within the limit: under Dwell, in every window of one
\* period the airtime on any one frequency is at most limit; under Duty, in
\* every window of one period the airtime on all frequencies is less than
\* limit times period.
C33_AirtimeWithinLimit ==
    model # None =>
        LET m == Unwrap(model)
            length == m.period * TicksPerMs
        IN  IF m.kind = "Dwell"
            THEN \A frequency \in Freqs :
                    \A from \in WindowStarts(all_sent, length) :
                        Airtime(OnFrequency(all_sent, frequency), from, length)
                            * m.limit.den <= Ms(m.limit.num)
            ELSE \A from \in WindowStarts(all_sent, length) :
                    Airtime(all_sent, from, length) * m.limit.den
                        < m.limit.num * length

---------------------------------------------------------------------------
(* Properties of OnionSpec.                                                *)

\* C19: from_bytes fails for every buffer shorter than 39 bytes; for a buffer
\* of n >= 39 bytes with a valid key it gives iv = bytes 0-1 read little
\* endian, the public key = bytes 2-34, the tag = bytes 35-38 and the cipher
\* text = the other n - 39 bytes (none when n = 39).
C19_FromBytesLayout ==
    onion_call.op = "from_bytes" =>
        LET buf == onion_call.buf
            n   == Len(buf)
        IN  /\ n < 39 => ~onion_call.ret.ok /\ onion = None
            /\ (n >= 39 /\ buf[3] \in {KeyTypeEccCompact, KeyTypeEd25519}) =>
                  /\ onion_call.ret.ok
                  /\ onion = Some(onion_call.ret.value)
                  /\ onion_call.ret.value.iv = buf[1] + 256 * buf[2]
                  /\ onion_call.ret.value.public_key
                         = [i \in 1..33 |-> buf[2 + i]]
                  /\ onion_call.ret.value.tag = [i \in 1..4 |-> buf[35 + i]]
                  /\ onion_call.ret.value.cipher_text
                         = [i \in 1..(n - 39) |-> buf[39 + i]]

C19_Witness ==
    /\ onion_call.op = "from_bytes"
    /\ Len(onion_call.buf) = 45
    /\ onion_call.ret.ok
    /\ onion_call.ret.value.iv > 255
    /\ Len(onion_call.ret.value.cipher_text) = 6

\* C20: when the first 4 bytes of the tag computed and masked by
\* decrypt_in_place differ from the stored tag, the call returns the
\* authentication error and the frame (iv, key, tag, cipher text) is as it
\* was; the cipher text is rewritten only when the tags match.
C20_AuthBeforeDecrypt ==
    onion_call.op = "decrypt_in_place" =>
        LET before == onion_call.before
            shared == ecdh(onion_call.keypair, before.public_key)
            match  == /\ shared.ok
                      /\ SubSeq(expected_tag(before, shared.value), 1, 4)
                             = before.tag
        IN  /\ (shared.ok /\ ~match) =>
                  /\ onion_call.ret = Err("crypto_error")
                  /\ onion = Some(before)
            /\ onion # Some(before) => match

C20_Witness ==
    /\ onion_call.op = "decrypt_in_place"
    /\ onion_call.ret = Err("crypto_error")
    /\ Len(onion_call.before.cipher_text) > 0
    /\ onion = Some(onion_call.before)

\* The sealed frames of OnionSpec: the reference encryption of each plain
\* text for the gateway's keypair 1.
SealedFrames ==
    {[plain_text |-> plain_text,
      onion |-> from_bytes(seal(iv, OnionKey(k), 1, plain_text)).value] :
        iv \in {42, 513}, k \in {1, 2}, plain_text \in PlainTexts}

C23_GetLayerReturns ==
    onion_call.op = "get_layer" => ~onion_call.outcome.panicked

\* C30: for a decrypted plain text [L | L payload bytes | remainder],
\* get_layer returns as selector the first two payload bytes read little
\* endian, and as next layer the frame [new_iv (2) | public key (33) |
\* remainder | L + 5 padding bytes of the digest], new_iv being iv XOR the 16
\* bits of the digest after the padding; the frame is as long as the frame
\* received, 39 + the length of the cipher text.
C30_NextLayerLayout ==
    onion_call.op = "get_layer" =>
        LET self == onion_call.before
            plain == self.cipher_text
            L == plain[1]
            payload == SubSeq(plain, 2, 1 + L)
            remainder == SubSeq(plain, 2 + L, Len(plain))
            digest == Sha512(payload)
            frame == onion_call.outcome.ret.value[2]
            new_iv == frame[1] + 256 * frame[2]
        IN  (Len(plain) >= 1 /\ L >= 2 /\ Len(plain) - 1 >= L) =>
                /\ ~onion_call.outcome.panicked
                /\ onion_call.outcome.ret.ok
                /\ onion_call.outcome.ret.value[1] = plain[2] + 256 * plain[3]
                /\ Len(frame) = 39 + Len(plain)
                /\ Xor(new_iv % 256, self.iv % 256) = digest[L + 6]
                /\ Xor(new_iv \div 256, self.iv \div 256) = digest[L + 7]
                /\ SubSeq(frame, 3, 35) = self.public_key
                /\ SubSeq(frame, 36, 35 + Len(remainder)) = remainder
                /\ SubSeq(frame, 36 + Len(remainder), Len(frame))
                       = SubSeq(digest, 1, L + 5)

---------------------------------------------------------------------------
(* Properties of SweepSpec, PocSpec and HandleSpec.                      *)

\* handle_queue_timer_tick has returned and run has not selected since.
SweepOver == run.pc = "select" /\ run.selected.branch = "tick" /\ ~sweep.active

\* gc_waiting_reports drops a report whose retry_count is n.
GcDrops(n) ==
    DOMAIN gc_waiting_reports(
               [challenges |-> <<>>,
                reports |-> [id \in {"poc_id"} |->
                                [QueueReportFrom("report") EXCEPT
                                    !.retry_count = n]]],
               MAX_REPORT_RETRY_COUNT).reports = {}

\* C13: a report whose delivery succeeds in a sweep has retry_count -1 from
\* then on and is not in the store when the sweep, with its garbage
\* collection, is over; garbage collection also removes a report whose
\* retry_count is above 20.
C13_DeliveredCollected ==
    /\ \A d \in sweep.done :
          d.ok => /\ d.retry_count = -1
                  /\ sweep.active => store.reports[d.poc_id].retry_count = -1
                  /\ SweepOver => d.poc_id \notin DOMAIN store.reports
    /\ SweepOver => \A n \in 21..127 : GcDrops(n)

C13_Witness ==
    /\ SweepOver
    /\ \E d \in sweep.done :
          /\ d.ok
          /\ d.poc_id \in DOMAIN sweep.start
          /\ d.poc_id \notin DOMAIN store.reports
    /\ DOMAIN store.reports # {}

\* C14: the garbage collection of a sweep removes exactly the reports whose
\* retry_count is -1 or above 20; a report with retry_count 0..20 stays.
C14_GcExactly ==
    SweepOver =>
        \A d \in sweep.done :
            d.poc_id \notin DOMAIN store.reports
                <=> (d.retry_count = -1 \/ d.retry_count > 20)

\* C24: a failed attempt leaves a report's retry_count one above what it was
\* when the sweep began, and a report whose attempt failed is removed by the
\* sweep only with a retry_count above 20, that is after its 21st failure.
C24_AbandonedAfter21 ==
    SweepOver =>
        \A d \in sweep.done :
            ~d.ok =>
                /\ d.retry_count = sweep.start[d.poc_id].retry_count + 1
                /\ d.poc_id \notin DOMAIN store.reports => d.retry_count > 20

\* C25: for every report a sweep removes because its retries are exhausted
\* the sweep has logged 'dropping ... max retries exceeded'.
C25_DropLogged ==
    SweepOver =>
        \A id \in DOMAIN sweep.start \ DOMAIN store.reports :
            (\A d \in sweep.done : d.poc_id = id => ~d.ok) =>
                <<"dropping", id>> \in sweep.log

\* C15: in a sweep never more than 5 reports are in flight, no report is
\* attempted twice, and when the sweep is over every report that was queued
\* at its start has been attempted once.
C15_BoundedFanOut ==
    /\ Cardinality(sweep.in_flight) <= 5
    /\ \A id \in DOMAIN sweep.attempts : sweep.attempts[id] <= 1
    /\ SweepOver =>
          /\ DOMAIN sweep.attempts = DOMAIN sweep.start
          /\ \A id \in DOMAIN sweep.start : sweep.attempts[id] = 1
          /\ {d.poc_id : d \in sweep.done} = DOMAIN sweep.start

C15_Witness ==
    /\ sweep.active
    /\ Cardinality(sweep.in_flight) = 5
    /\ sweep.pending # {}

\* C16: after a packet is handled and its report stored, the store holds
\* for the packet's id (the digest of its onion key) one fresh entry with
\* retry_count 0, no challenger and the new report, whatever it held for
\* the id before; the entries of all other ids and the challenges are as
\* they were.
C16_LastWriteWins ==
    (/\ run.selected.branch = "message"
     /\ handled.msg.type = "PocPacket"
     /\ handled.ret.ok) =>
        LET payload == handled.msg.packet.payload
            id == Sha256(SubSeq(payload, 3, 35))
        IN  /\ DOMAIN store.reports = DOMAIN handled.before.reports \cup {id}
            /\ store.reports[id].retry_count = 0
            /\ store.reports[id].challenger = None
            /\ store.reports[id].report.onion_key_hash = id
            /\ Unwrap(store.reports[id].report.msg).packet_hash
                   = Sha256(SubSeq(payload, 36, Len(payload)))
            /\ \A other \in DOMAIN handled.before.reports \ {id} :
                  store.reports[other] = handled.before.reports[other]
            /\ store.challenges = handled.before.challenges

C16_Witness ==
    /\ run.selected.branch = "message"
    /\ handled.msg.type = "PocPacket"
    /\ handled.ret.ok
    /\ LET id == Sha256(SubSeq(handled.msg.packet.payload, 3, 35))
       IN  /\ id \in DOMAIN handled.before.reports
           /\ handled.before.reports[id].retry_count > 0
           /\ handled.before.reports[id].challenger # None
           /\ handled.before.reports[id].report # store.reports[id].report
           /\ Cardinality(DOMAIN handled.before.reports) > 1

\* C17: when a sweep is over, poc_check_challenge_target has been called
\* for every challenge that was queued when the sweep began.
C17_ChallengesRechecked ==
    SweepOver =>
        \A id \in sweep.challenges :
            <<"poc_check_challenge_target", id>> \in sweep.calls

\* C18: when select! chooses with shutdown already triggered, it takes the
\* shutdown arm: no message is handled and no sweep started.
C18_ShutdownFirst ==
    (run.selected.branch # "none" /\ run.selected.shutdown) =>
        run.selected.branch = "shutdown"

\* C22: when handling a radio packet or a challenge notification fails (short
\* frame, invalid key, no region parameters, unmapped frequency, signing
\* error), the store is as it was and run is back at select!, where later
\* messages and ticks are taken.
C22_FailureDiscarded ==
    (/\ run.selected.branch = "message"
     /\ handled.msg.type \in {"PocPacket", "PocChallenge"}
     /\ ~handled.ret.ok)
        => store = handled.before /\ run.pc = "select"

C22_Witness ==
    /\ handled.msg.type = "PocPacket"
    /\ handled.ret = Err("sign")
    /\ DOMAIN handled.before.reports # {}
    /\ store = handled.before
    /\ run.selected.branch = "tick"
    /\ run.pc = "sweep"

\* The frequency is within 0.001 of a channel of the parameters.
Mapped(region_params, frequency) ==
    \E i \in 1..Len(region_params.params) :
        /\ region_params.params[i].channel_frequency * 1000 - frequency <= 1
        /\ frequency - region_params.params[i].channel_frequency * 1000 <= 1

\* run takes the message m from the channel in this step.
Takes(m) ==
    /\ messages.queue # <<>>
    /\ Head(messages.queue) = m
    /\ messages'.queue = Tail(messages.queue)

\* C29: the region parameters of the client are none until a
\* RegionParamsChanged message is handled and from then on those of the most
\* recent one; a packet is queued as a witness report only if they are not
\* none and its frequency maps to one of their channels, and a packet handled
\* when they are none or its frequency is unmapped is rejected with nothing
\* queued.
C29_QueuedOnlyIfMapped ==
    [][/\ client'.region_params # client.region_params =>
              \E m \in Messages : Takes(m) /\ m.type = "RegionParamsChanged"
       /\ \A m \in Messages :
              (Takes(m) /\ m.type = "RegionParamsChanged") =>
                  client'.region_params = m.region_params
       /\ \A m \in Messages :
              (Takes(m) /\ m.type = "PocPacket") =>
                  /\ store' # store =>
                        /\ client.region_params # None
                        /\ Mapped(Unwrap(client.region_params),
                                  m.packet.frequency)
                  /\ (\/ client.region_params = None
                      \/ ~Mapped(Unwrap(client.region_params),
                                 m.packet.frequency)) =>
                        /\ store' = store
                        /\ ~handled'.ret.ok]_vars

C29_Witness ==
    /\ run.selected.branch = "message"
    /\ handled.msg.type = "PocPacket"
    /\ handled.msg.packet.frequency = 903001
    /\ handled.ret.ok
    /\ client.region_params = Some(RegionParams1)
    /\ DOMAIN handled.before.reports = {}
    /\ \E id \in DOMAIN store.reports :
          Unwrap(store.reports[id].report.msg).channel = 0

---------------------------------------------------------------------------
(* Properties of LiveSpec.                                                 *)
LiveIds == {Sha256(OnionKey(k)) : k \in 1..MaxLiveReports}

\* C26: while ticks keep occurring and every delivery call returns, a report
\* that is queued is eventually no longer in the store, delivered or
\* abandoned.
C26_ReportsLeave ==
    \A id \in LiveIds :
        (id \in DOMAIN store.reports) ~> (id \notin DOMAIN store.reports)

C26_Witness ==
    /\ SweepOver
    /\ Sha256(OnionKey(2)) \notin DOMAIN store.reports
    /\ \E d \in sweep.done :
          /\ d.poc_id = Sha256(OnionKey(2))
          /\ ~d.ok
          /\ d.retry_count = MAX_REPORT_RETRY_COUNT

\* C27: a challenge that a challenge notification put into the store is
\* eventually removed from it.
C27_ChallengesLeave ==
    (LateChallenge.poc_id \in DOMAIN store.challenges)
        ~> (LateChallenge.poc_id \notin DOMAIN store.challenges)

---------------------------------------------------------------------------
(* Properties of ConfigSpec.                                               *)

\* The message invalidates the cached variables.
Invalidates(msg) ==
    \/ msg.type = "GatewayChanged"
    \/ msg.type = "ConfigChanged" /\ msg.keys \cap POC_CONFIG_KEYS # {}

\* The two variables served are valid: each converts to a number.
ServesValid(served) ==
    /\ served.ok
    /\ Len(served.value) = 2
    /\ to_value(served.value[1]).ok
    /\ to_value(served.value[2]).ok

\* C28: after a message has invalidated the cached variables, a call of
\* poc_timeout() or block_time() that finds them still none, made while a
\* gateway is connected that serves valid values, returns the value fetched,
\* and not none.
C28_RefetchedOnNextCall ==
    (/\ config_call.op \in {"poc_timeout", "block_time"}
     /\ Invalidates(config_call.after_message)
     /\ config_call.before.block_time = None
     /\ config_call.before.poc_timeout = None
     /\ config_call.before.gateway # None
     /\ ServesValid(config_call.served))
        => /\ config_call.ret # None
           /\ config_call.op = "block_time" =>
                 config_call.ret
                     = Some(to_value(config_call.served.value[1]).value)
           /\ config_call.op = "poc_timeout" =>
                 config_call.ret
                     = Some(to_value(config_call.served.value[2]).value % 256)

---------------------------------------------------------------------------
(* Properties of LoopSpec.                                                 *)

\* The reports the garbage collection of the sweep just completed removed.
Collected == DOMAIN sweep.start \ DOMAIN store.reports

\* C31: while a sweep is under way (from the tick that starts it to the end
\* of its garbage collection) no message is handled, nothing is inserted
\* into the store and run does not return, whatever waits in the channel
\* and whether or not shutdown is triggered; the store changes only where a
\* report's closure completes.  So every report the garbage collection
\* removes was attempted in that sweep.
C31_SweepUninterrupted ==
    [][/\ run.pc = "sweep" =>
            /\ handled' = handled
            /\ client' = client
            /\ run'.pc \in {"sweep", "select"}
            /\ Len(messages'.queue) >= Len(messages.queue)
            /\ store'.challenges = store.challenges
            /\ DOMAIN store'.reports \subseteq DOMAIN store.reports
            /\ \A id \in DOMAIN store'.reports :
                  store'.reports[id] # store.reports[id]
                      => id \in sweep.in_flight
       /\ SweepOver' =>
            \A id \in Collected' :
                /\ sweep'.attempts[id] = 1
                /\ \E d \in sweep'.done : d.poc_id = id]_vars

\* A sweep has removed a report although, when select! took the tick, a
\* message was waiting and shutdown was triggered.
C31_Witness ==
    /\ SweepOver
    /\ Collected # {}
    /\ run.selected.pending > 0
    /\ run.selected.shutdown
    /\ messages.queue # <<>>

\* C34: a report in the store has a retry_count from -1 to 20 at every
\* moment, so that the increment of the 8-bit signed counter never leaves
\* its range; outside a sweep, and so after every completed sweep, every
\* report in the store has 0 <= retry_count < 20.
C34_RetryCountRange ==
    /\ \A id \in DOMAIN store.reports :
          /\ store.reports[id].retry_count \in -1..MAX_REPORT_RETRY_COUNT
          /\ store.reports[id].retry_count + 1 <= 127
    /\ \A d \in sweep.done : d.retry_count \in -1..MAX_REPORT_RETRY_COUNT
    /\ run.pc # "sweep" =>
          \A id \in DOMAIN store.reports :
              /\ 0 <= store.reports[id].retry_count
              /\ store.reports[id].retry_count < MAX_REPORT_RETRY_COUNT

\* A sweep has completed that took one report to 20 and another to -1, and
\* its garbage collection has removed both.
C34_Witness ==
    /\ SweepOver
    /\ \E d \in sweep.done :
          d.retry_count = MAX_REPORT_RETRY_COUNT /\ d.poc_id \in Collected
    /\ \E d \in sweep.done : d.retry_count = -1 /\ d.poc_id \in Collected

\* The step completes a closure that called poc_send_report for id.
SendsReport(id) ==
    /\ <<"poc_send_report", id>> \in sweep'.calls
    /\ \E d \in sweep'.done \ sweep.done : d.poc_id = id

\* C35: for a report whose poc_send_report has succeeded, and that no
\* insertion has replaced since, no step sends it again, and no closure for
\* it is pending or in flight, in the sweep that delivered it or in a later
\* one.
C35_DeliveredNotResent ==
    [][\A id \in delivered :
          /\ ~SendsReport(id)
          /\ id \notin sweep'.pending \cup sweep'.in_flight]_vars

\* A sweep later than the one that delivered a report has completed, and
\* has sent another report.
C35_Witness ==
    /\ SweepOver
    /\ \E id \in delivered : id \notin DOMAIN sweep.start
    /\ \E id \in DOMAIN sweep.start : <<"poc_send_report", id>> \in sweep.calls

---------------------------------------------------------------------------
(* Properties of ClosedSpec.                                               *)

\* C36: run returns only by taking the shutdown arm, never because the
\* channel is closed, and after recv() gave None the loop is at select!
\* again; with the channel closed a tick that is due is still taken (unless
\* run returns on shutdown first), and a triggered shutdown still makes run
\* return.
C36_ClosedChannelIgnored ==
    /\ [][/\ (run'.pc = "returned" /\ run.pc # "returned")
                => shutdown /\ run'.selected.branch = "shutdown"
          /\ (handled' # handled /\ handled'.msg.type = "None")
                => run'.pc = "select"]_vars
    /\ (messages.closed /\ queue_timer)
            ~> (~queue_timer \/ run.pc = "returned")
    /\ (messages.closed /\ shutdown) ~> (run.pc = "returned")

\* After recv() gave None for the closed channel a sweep has removed a
\* report, and then run has returned on shutdown.
C36_Witness ==
    /\ run.pc = "returned"
    /\ messages.closed
    /\ handled.msg.type = "None"
    /\ DOMAIN handled.before.reports \ DOMAIN store.reports # {}

===========================================================================
